---- MODULE Spec2Model ----
(***************************************************************************)
(* Gate-bootstrapping engine of tfhe/src/gadget: the p-ary encoding, the   *)
(* scratch arena, the bootstrapper and the gate evaluator.                 *)
(*                                                                         *)
(* Ciphertexts are modelled noise-free: an LWE ciphertext is its size and  *)
(* its phase (the value decrypt_lwe_ciphertext returns).  A 32-bit word is *)
(* kept at full width as two 16-bit limbs <<hi, lo>>, so that every        *)
(* u32/u64 computation of the source is carried out exactly.               *)
(***************************************************************************)
EXTENDS Integers, Sequences, FiniteSets, TLC

VARIABLES memory, call, test

vars == <<memory, call, test>>

(***************************************************************************)
(* Bounds of the model.                                                    *)
(***************************************************************************)
\* plaintext moduli 0..MaxP are drawn for the encodings
MaxP == 5
\* the small parameter sets have polynomial_size 8 .. 2^MaxLogN
MaxLogN == 6
\* engine calls made in one behaviour of Spec
MaxCalls == 2
\* plaintext moduli 1..MaxGateP of the gate encodings
MaxGateP == 3
\* plaintext moduli and messages 0..MaxCodecP of the encrypt/decrypt client
MaxCodecP == 23
\* lwe_dimension of the small parameter sets
SmallLweDimension == 2
\* plaintext moduli 0..MaxAccP of the encodings whose accumulator is created
MaxAccP == 5
\* threads that use the engine
MaxThreads == 2

(***************************************************************************)
(* u32 arithmetic on limbs.                                                *)
(***************************************************************************)
Limb == 2^16

u32(hi, lo) == <<hi, lo>>

Zero32 == u32(0, 0)

\* wrapping addition of two words
wrapping_add(a, b) ==
    LET lo == a[2] + b[2]
        hi == a[1] + b[1] + (lo \div Limb)
    IN  u32(hi % Limb, lo % Limb)

\* two's complement negation of a word
wrapping_neg(a) ==
    IF a[2] = 0
    THEN u32((Limb - a[1]) % Limb, 0)
    ELSE u32(Limb - 1 - a[1], Limb - a[2])

\* variant of wrapping_mul that leaves the word as it is
wrapping_mul_by_one(a, s) == a

\* (a as u64 * s as u64) as u32 for a scalar s < 2^15
wrapping_mul(a, s) ==
    LET lo == a[2] * s
        hi == a[1] * s + (lo \div Limb)
    IN  u32(hi % Limb, lo % Limb)

\* (((1u64 << 32) * x as u64) / p as u64) as u32, for x, p < 2^15 and p > 0
ScaleToNative(x, p) ==
    LET t  == x * Limb
        q1 == t \div p
        q2 == ((t % p) * Limb) \div p
    IN  u32(q1 % Limb, q2)

\* round(v * 2^32 / p) mod 2^32, to nearest, for v, p < 2^14 and p > 0: the
\* lifting in place of the truncating one of DeltaTimes
encode(v, p) ==
    LET d  == 2 * p
        t  == 2 * v * Limb
        q1 == t \div d
        q2 == (((t % d) * Limb) + p) \div d
    IN  u32(q1 % Limb, q2)

\* (((1u64 << 32) / p as u64) * a as u64) as u32, for a, p < 2^15 and p > 0
DeltaTimes(a, p) ==
    LET q1 == Limb \div p
        q2 == ((Limb % p) * Limb) \div p
        lo == q2 * a
        hi == q1 * a + (lo \div Limb)
    IN  u32(hi % Limb, lo % Limb)

\* variant of RoundToP that truncates: the half 1 << 31 is not added
RoundToP_truncating(d, p) ==
    LET t0 == d[2] * p
        t1 == d[1] * p + (t0 \div Limb)
    IN  t1 \div Limb

\* (((d as u64 * p as u64) + (1 << 31)) >> 32) as u32, for p < 2^15
RoundToP(d, p) ==
    LET t0 == d[2] * p
        t1 == d[1] * p + (t0 \div Limb)
    IN  (t1 + (Limb \div 2)) \div Limb

(***************************************************************************)
(* Values: ciphertexts, call outcomes, parameter sets, server keys.        *)
(***************************************************************************)
\* Ciphertext::Encrypted of an LWE ciphertext with lwe_size words
Encrypted(lwe_size, phase) ==
    [tag |-> "Encrypted", lwe_size |-> lwe_size, phase |-> phase]

\* Ciphertext::Trivial(b)
Trivial(b) == [tag |-> "Trivial", value |-> b]

\* an operation that unwinds instead of returning
Panic(why) == [tag |-> "Panic", why |-> why]

\* a GadgetParameters value, reduced to the dimensions
GadgetParameters(lwe_dimension, glwe_dimension, polynomial_size) ==
    [lwe_dimension |-> lwe_dimension,
     glwe_dimension |-> glwe_dimension,
     polynomial_size |-> polynomial_size]

DEFAULT_PARAMETERS == GadgetParameters(768, 1, 2048)

\* the shape of the ServerKey that new_server_key builds for a client key
\* with these parameters
new_server_key(parameters) ==
    [input_lwe_dimension |-> parameters.lwe_dimension,
     glwe_size |-> parameters.glwe_dimension + 1,
     polynomial_size |-> parameters.polynomial_size,
     output_lwe_size |-> parameters.lwe_dimension + 1,
     output_lwe_dimension |->
         parameters.glwe_dimension * parameters.polynomial_size]

(***************************************************************************)
(* Encoding.                                                               *)
(***************************************************************************)
\* a u128 as eight 16-bit limbs, least significant first
u128(l0, l1) == <<l0, l1, 0, 0, 0, 0, 0, 0>>

\* (tt_value >> row) & 1
tt_bit(tt_value, row) ==
    (tt_value[(row \div 16) + 1] \div (2 ^ (row % 16))) % 2

\* Vec::contains
contains(v, x) == \E i \in DOMAIN v : v[i] = x

Encoding_new(tt_value, pin_count, input_mappings_0, input_mappings_1, output_encodings_0, output_encodings_1, new_0, new_1, p, new_p) ==
    [tt_value |-> tt_value,
     pin_count |-> pin_count,
     input_mappings_0 |-> input_mappings_0,
     input_mappings_1 |-> input_mappings_1,
     output_encodings_0 |-> output_encodings_0,
     output_encodings_1 |-> output_encodings_1,
     new_0 |-> new_0,
     new_1 |-> new_1,
     p |-> p,
     new_p |-> new_p]

new_canonical(tt_value, pin_count, input_mappings_1, output_encodings_0, output_encodings_1, p) ==
    Encoding_new(tt_value, pin_count, [i \in 1..pin_count |-> 0],
                 input_mappings_1, output_encodings_0, output_encodings_1,
                 0, 1, p, p)

\* variant of create_accumulator_loop whose odd slots are not negated
RECURSIVE create_accumulator_loop_unnegated(_, _, _)
create_accumulator_loop_unnegated(self, acc, i) ==
    LET p == self.p
    IN  IF i >= (p + 1) \div 2
        THEN acc
        ELSE LET alpha == i
                 beta == (alpha + ((p + 1) \div 2)) % p
                 first ==
                     IF contains(self.output_encodings_0, alpha)
                     THEN self.new_0
                     ELSE self.new_1
                 second ==
                     IF contains(self.output_encodings_0, beta)
                     THEN self.new_0
                     ELSE self.new_1
             IN  create_accumulator_loop_unnegated(
                     self,
                     [acc EXCEPT ![2 * i] = first, ![2 * i + 1] = second],
                     i + 1)

\* variant of create_accumulator_loop whose negated slots are not reduced
\* modulo new_p
RECURSIVE create_accumulator_loop_unreduced(_, _, _)
create_accumulator_loop_unreduced(self, acc, i) ==
    LET p == self.p
    IN  IF i >= (p + 1) \div 2
        THEN acc
        ELSE LET alpha == i
                 beta == (alpha + ((p + 1) \div 2)) % p
                 first ==
                     IF contains(self.output_encodings_0, alpha)
                     THEN self.new_0
                     ELSE self.new_1
                 second ==
                     IF contains(self.output_encodings_0, beta)
                     THEN self.new_p - self.new_0
                     ELSE self.new_p - self.new_1
             IN  create_accumulator_loop_unreduced(
                     self,
                     [acc EXCEPT ![2 * i] = first, ![2 * i + 1] = second],
                     i + 1)

\* variant of create_accumulator_loop whose beta is not reduced modulo p
RECURSIVE create_accumulator_loop_unwrapped(_, _, _)
create_accumulator_loop_unwrapped(self, acc, i) ==
    LET p == self.p
    IN  IF i >= (p + 1) \div 2
        THEN acc
        ELSE LET alpha == i
                 beta == alpha + ((p + 1) \div 2)
                 first ==
                     IF contains(self.output_encodings_0, alpha)
                     THEN self.new_0
                     ELSE self.new_1
                 second ==
                     IF contains(self.output_encodings_0, beta)
                     THEN (self.new_p - self.new_0) % self.new_p
                     ELSE (self.new_p - self.new_1) % self.new_p
             IN  create_accumulator_loop_unwrapped(
                     self,
                     [acc EXCEPT ![2 * i] = first, ![2 * i + 1] = second],
                     i + 1)

\* variant of create_accumulator_loop that decides a slot from membership in
\* output_encodings_1
RECURSIVE create_accumulator_loop_by_output_1(_, _, _)
create_accumulator_loop_by_output_1(self, acc, i) ==
    LET p == self.p
    IN  IF i >= (p + 1) \div 2
        THEN acc
        ELSE LET alpha == i
                 beta == (alpha + ((p + 1) \div 2)) % p
                 first ==
                     IF ~contains(self.output_encodings_1, alpha)
                     THEN self.new_0
                     ELSE self.new_1
                 second ==
                     IF ~contains(self.output_encodings_1, beta)
                     THEN (self.new_p - self.new_0) % self.new_p
                     ELSE (self.new_p - self.new_1) % self.new_p
             IN  create_accumulator_loop_by_output_1(
                     self,
                     [acc EXCEPT ![2 * i] = first, ![2 * i + 1] = second],
                     i + 1)

\* the body of the loop of create_accumulator, from iteration i on
RECURSIVE create_accumulator_loop(_, _, _)
create_accumulator_loop(self, acc, i) ==
    LET p == self.p
    IN  IF i >= (p + 1) \div 2
        THEN acc
        ELSE LET alpha == i
                 beta == (alpha + ((p + 1) \div 2)) % p
                 first ==
                     IF contains(self.output_encodings_0, alpha)
                     THEN self.new_0
                     ELSE self.new_1
                 second ==
                     IF contains(self.output_encodings_0, beta)
                     THEN (self.new_p - self.new_0) % self.new_p
                     ELSE (self.new_p - self.new_1) % self.new_p
             IN  create_accumulator_loop(
                     self,
                     [acc EXCEPT ![2 * i] = first, ![2 * i + 1] = second],
                     i + 1)

\* Encoding::create_accumulator: a vector indexed 0..p
create_accumulator(self) ==
    create_accumulator_loop(self, [j \in 0..self.p |-> 0], 0)

\* the slots that the loop of create_accumulator assigns
assigned_slots(p) ==
    UNION {{2 * i, 2 * i + 1} : i \in 0..(((p + 1) \div 2) - 1)}

\* the fields of Encoding in the order of their declaration
EncodingFields ==
    <<"tt_value", "pin_count", "input_mappings_0", "input_mappings_1",
      "output_encodings_0", "output_encodings_1", "new_0", "new_1", "p",
      "new_p">>

\* outcomes of a fallible call
Ok(v) == [tag |-> "Ok", value |-> v]

Err(why, what) == [tag |-> "Err", why |-> why, field |-> what]

\* serde_json::from_str::<Encoding> of a JSON object, held as the function
\* from its keys to their values: the derived Deserialize has no default for
\* any field, ignores unknown keys and reports the first field of the
\* declaration that the object does not carry
from_str(json) ==
    LET missing ==
            SelectSeq(EncodingFields, LAMBDA f : f \notin DOMAIN json)
    IN  IF missing = <<>>
        THEN Ok([f \in {EncodingFields[i] : i \in DOMAIN EncodingFields} |->
                    json[f]])
        ELSE Err("missing field", missing[1])

(***************************************************************************)
(* The primitives of the cryptographic library, noise-free.                *)
(***************************************************************************)
\* decrypt_lwe_ciphertext: the phase of the ciphertext
decrypt_lwe_ciphertext(lwe) == lwe.phase

\* the index in 0..2N-1 that the blind rotation of the PBS rotates by:
\* round(phase * 2N / 2^32) mod 2N, for N a power of two, 4 <= 4N <= 2^16
modulus_switch(phase, polynomial_size) ==
    LET step == Limb \div (2 * polynomial_size)
    IN  ((phase[1] + (step \div 2)) \div step) % (2 * polynomial_size)

\* programmable_bootstrap_lwe_ciphertext_mem_optimized on a trivial
\* accumulator whose body is `body` (indexed 1..N): the coefficient at the
\* rotation index, negated when the index wraps past N
programmable_bootstrap_lwe_ciphertext(phase, body, polynomial_size) ==
    LET idx == modulus_switch(phase, polynomial_size)
    IN  IF idx < polynomial_size
        THEN body[idx + 1]
        ELSE wrapping_neg(body[idx - polynomial_size + 1])

\* keyswitch_lwe_ciphertext keeps the phase and changes the key
keyswitch_lwe_ciphertext(phase) == phase

(***************************************************************************)
(* Memory: the scratch arena.  memory is the Vec<u32>, indexed from 1.     *)
(***************************************************************************)
\* n copies of the word v
repeat(v, n) == [j \in 1..n |-> v]

\* variant of resize that also truncates a longer vector to total
resize_exact(buffer, total) ==
    IF Len(buffer) < total
    THEN buffer \o [j \in 1..(total - Len(buffer)) |-> Zero32]
    ELSE SubSeq(buffer, 1, total)

\* Vec::resize(total, 0) when the vector is shorter than total
resize(buffer, total) ==
    IF Len(buffer) < total
    THEN buffer \o repeat(Zero32, total - Len(buffer))
    ELSE buffer

\* slice[lo..hi].fill(v)
fill(slice, lo, hi, v) ==
    IF hi <= lo
    THEN slice
    ELSE SubSeq(slice, 1, lo) \o repeat(v, hi - lo)
             \o SubSeq(slice, hi + 1, Len(slice))

\* buffer with the words of the view [lo, hi) replaced by the words of slice
store(buffer, lo, hi, slice) ==
    SubSeq(buffer, 1, lo) \o slice \o SubSeq(buffer, hi + 1, Len(buffer))

\* variant of body_ranges whose windows are not shifted by the half window
body_ranges_unshifted(p, n) ==
    LET half_window == n \div (2 * p)
    IN  <<[slot |-> 0, lo |-> 0, hi |-> half_window]>>
        \o [i \in 1..(p - 1) |->
               [slot |-> i,
                lo |-> (i - 1) * (n \div p),
                hi |-> i * (n \div p)]]
        \o <<[slot |-> p, lo |-> n - half_window, hi |-> n]>>

\* variant of body_ranges whose last half window starts one coefficient early
body_ranges_overlapping(p, n) ==
    LET half_window == n \div (2 * p)
    IN  <<[slot |-> 0, lo |-> 0, hi |-> half_window]>>
        \o [i \in 1..(p - 1) |->
               [slot |-> i,
                lo |-> ((i - 1) * (n \div p)) + half_window,
                hi |-> (i * (n \div p)) + half_window]]
        \o <<[slot |-> p, lo |-> n - half_window - 1, hi |-> n]>>

\* the coefficient ranges [lo, hi) of the accumulator body that as_buffers
\* fills, in the order it fills them, each with the accumulator slot it takes
body_ranges(p, n) ==
    LET half_window == n \div (2 * p)
    IN  <<[slot |-> 0, lo |-> 0, hi |-> half_window]>>
        \o [i \in 1..(p - 1) |->
               [slot |-> i,
                lo |-> ((i - 1) * (n \div p)) + half_window,
                hi |-> (i * (n \div p)) + half_window]]
        \o <<[slot |-> p, lo |-> n - half_window, hi |-> n]>>

\* the fills of the accumulator body from range k on
RECURSIVE fill_ranges(_, _, _, _, _)
fill_ranges(body, ranges, encoding_acc, p, k) ==
    IF k > Len(ranges)
    THEN body
    ELSE fill_ranges(
             fill(body, ranges[k].lo, ranges[k].hi,
                  DeltaTimes(encoding_acc[ranges[k].slot], p)),
             ranges, encoding_acc, p, k + 1)

\* variant of as_buffers that rejects p < 2 and N not a multiple of 2p before
\* it touches the arena
as_buffers_validating(buffer, server_key, encoding) ==
    LET num_elem_in_accumulator ==
            server_key.glwe_size * server_key.polynomial_size
        total_elem_needed ==
            num_elem_in_accumulator + server_key.output_lwe_size
                + server_key.output_lwe_dimension + 1
        n == server_key.polynomial_size
        mask_len == num_elem_in_accumulator - n
        masked == fill(resize(buffer, total_elem_needed), 0, mask_len, Zero32)
        p == encoding.p
    IN  IF p < 2 \/ n % (2 * p) # 0
        THEN [panic |-> TRUE, buffer |-> buffer]
        ELSE [panic |-> FALSE,
              buffer |->
                  store(masked, mask_len, num_elem_in_accumulator,
                        fill_ranges(
                            SubSeq(masked, mask_len + 1, num_elem_in_accumulator),
                            body_ranges(p, n), create_accumulator(encoding),
                            p, 1))]

\* Memory::as_buffers: the arena after the call, or a panic and the arena it
\* leaves behind.  The views are the word ranges that Views names.
as_buffers(buffer, server_key, encoding) ==
    LET num_elem_in_accumulator ==
            server_key.glwe_size * server_key.polynomial_size
        num_of_elem_lwe_after_ksk == server_key.output_lwe_size
        num_of_elem_lwe_after_pbs == server_key.output_lwe_dimension + 1
        total_elem_needed ==
            num_elem_in_accumulator + num_of_elem_lwe_after_ksk
                + num_of_elem_lwe_after_pbs
        n == server_key.polynomial_size
        mask_len == num_elem_in_accumulator - n
        masked == fill(resize(buffer, total_elem_needed), 0, mask_len, Zero32)
        p == encoding.p
    IN  IF p = 0
        THEN [panic |-> TRUE, buffer |-> masked]
        ELSE [panic |-> FALSE,
              buffer |->
                  store(masked, mask_len, num_elem_in_accumulator,
                        fill_ranges(
                            SubSeq(masked, mask_len + 1, num_elem_in_accumulator),
                            body_ranges(p, n), create_accumulator(encoding),
                            p, 1))]

\* the word offsets of the three views of BuffersRef in the arena
Views(server_key) ==
    LET acc_len == server_key.glwe_size * server_key.polynomial_size
    IN  [mask |-> [lo |-> 0, hi |-> acc_len - server_key.polynomial_size],
         body |-> [lo |-> acc_len - server_key.polynomial_size, hi |-> acc_len],
         buffer_lwe_after_ks |->
             [lo |-> acc_len, hi |-> acc_len + server_key.output_lwe_size],
         buffer_lwe_after_pbs |->
             [lo |-> acc_len + server_key.output_lwe_size,
              hi |-> acc_len + server_key.output_lwe_size
                         + server_key.output_lwe_dimension + 1]]

\* the words of a view, indexed from 1
view(buffer, range) == SubSeq(buffer, range.lo + 1, range.hi)

(***************************************************************************)
(* Bootstrapper and GadgetEngine.  An operation on the engine yields the   *)
(* arena it leaves (buffer) and what it returns (ret).                     *)
(***************************************************************************)
\* Bootstrapper::bootstrap_keyswitch on the LWE ciphertext `ciphertext`.  Of
\* the post-PBS LWE ciphertext the arena keeps the phase in the body word; its
\* mask words, which depend on the keys, are held as zeros.
bootstrap_keyswitch(buffer, ciphertext, server_key, encoding) ==
    LET buffers == as_buffers(buffer, server_key, encoding)
        views == Views(server_key)
        accumulator == view(buffers.buffer, views.body)
        after_pbs ==
            programmable_bootstrap_lwe_ciphertext(
                ciphertext.phase, accumulator, server_key.polynomial_size)
        written ==
            store(buffers.buffer, views.buffer_lwe_after_pbs.lo,
                  views.buffer_lwe_after_pbs.hi,
                  repeat(Zero32, server_key.output_lwe_dimension)
                      \o <<after_pbs>>)
    IN  IF buffers.panic
        THEN [buffer |-> buffers.buffer,
              ret |-> Panic("attempt to divide by zero")]
        ELSE [buffer |-> written,
              ret |-> Encrypted(ciphertext.lwe_size,
                                keyswitch_lwe_ciphertext(after_pbs))]

\* GadgetEngine::encrypt under the small LWE secret key of the client key
encrypt(message, parameters, encoding) ==
    IF encoding.p = 0
    THEN Panic("attempt to divide by zero")
    ELSE Encrypted(parameters.lwe_dimension + 1,
                   ScaleToNative(message, encoding.p))

\* variant of decrypt that does not reduce the rounded value modulo p
decrypt_unreduced(ct, encoding) ==
    IF ct.tag = "Encrypted"
    THEN IF encoding.p = 0
         THEN Panic("attempt to calculate the remainder with a divisor of zero")
         ELSE RoundToP(decrypt_lwe_ciphertext(ct), encoding.p)
    ELSE IF ct.value THEN 1 ELSE 0

\* GadgetEngine::decrypt
decrypt(ct, encoding) ==
    IF ct.tag = "Encrypted"
    THEN IF encoding.p = 0
         THEN Panic("attempt to calculate the remainder with a divisor of zero")
         ELSE RoundToP(decrypt_lwe_ciphertext(ct), encoding.p) % encoding.p
    ELSE IF ct.value THEN 1 ELSE 0

\* variant of bootstrap that looks a Trivial input up as the encryption of
\* its bit
bootstrap_looking_up(buffer, ct, server_key, encoding) ==
    IF ct.tag = "Encrypted"
    THEN bootstrap_keyswitch(buffer, ct, server_key, encoding)
    ELSE bootstrap_keyswitch(
             buffer,
             Encrypted(server_key.input_lwe_dimension + 1,
                       IF encoding.p = 0
                       THEN Zero32
                       ELSE ScaleToNative(IF ct.value THEN 1 ELSE 0,
                                          encoding.p)),
             server_key, encoding)

\* GadgetEngine::bootstrap
bootstrap(buffer, ct, server_key, encoding) ==
    IF ct.tag = "Encrypted"
    THEN bootstrap_keyswitch(buffer, ct, server_key, encoding)
    ELSE [buffer |-> buffer, ret |-> Trivial(ct.value)]

\* variant of paired_scalar that walks input_mappings_1 forward
paired_scalar_forward(encoding, i) == encoding.input_mappings_1[i]

\* variant of trivial_plaintext that encodes 1 instead of the scalar
trivial_plaintext_of_one(scalar_val, p) == ScaleToNative(1, p)

\* the plaintext that evaluate_gate adds for a Trivial(true) pin
trivial_plaintext(scalar_val, p) == ScaleToNative(scalar_val, p)

\* the scalar that izip pairs with input_ciphertexts[i] (i counted from 1):
\* input_mappings_1 is walked in reverse
paired_scalar(encoding, i) ==
    encoding.input_mappings_1[Len(encoding.input_mappings_1) + 1 - i]

\* the for_each of evaluate_gate from pair i on: sum_ct (a ciphertext) after
\* the remaining pairs, or a panic
RECURSIVE sum_pins(_, _, _, _)
sum_pins(encoding, input_ciphertexts, sum_ct, i) ==
    IF i > Len(encoding.input_mappings_1) \/ i > Len(input_ciphertexts)
    THEN sum_ct
    ELSE LET scalar_val == paired_scalar(encoding, i)
             pin_ct == input_ciphertexts[i]
             add(phase) ==
                 Encrypted(sum_ct.lwe_size, wrapping_add(sum_ct.phase, phase))
         IN  IF pin_ct.tag = "Encrypted"
             THEN sum_pins(encoding, input_ciphertexts,
                           add(wrapping_mul(pin_ct.phase, scalar_val)), i + 1)
             ELSE IF pin_ct.value
             THEN IF encoding.p = 0
                  THEN Panic("attempt to divide by zero")
                  ELSE sum_pins(encoding, input_ciphertexts,
                                add(trivial_plaintext(scalar_val, encoding.p)),
                                i + 1)
             ELSE sum_pins(encoding, input_ciphertexts, sum_ct, i + 1)

\* variant of evaluate_gate that also asserts that input_mappings_1 has
\* pin_count scalars
evaluate_gate_checking_scalars(buffer, server_key, encoding, input_ciphertexts) ==
    IF encoding.pin_count # Len(input_ciphertexts)
           \/ encoding.pin_count # Len(encoding.input_mappings_1)
    THEN [buffer |-> buffer,
          sum_ct |-> Panic("assertion failed"),
          ret |-> Panic("assertion failed")]
    ELSE LET sum_ct ==
                 sum_pins(encoding, input_ciphertexts,
                          Encrypted(server_key.input_lwe_dimension + 1, Zero32),
                          1)
             done == bootstrap(buffer, sum_ct, server_key, encoding)
         IN  [buffer |-> done.buffer, sum_ct |-> sum_ct, ret |-> done.ret]

\* variant of evaluate_gate that returns the sum of the pins without the
\* bootstrap
evaluate_gate_unbootstrapped(buffer, server_key, encoding, input_ciphertexts) ==
    IF encoding.pin_count # Len(input_ciphertexts)
    THEN [buffer |-> buffer,
          sum_ct |-> Panic("assertion failed"),
          ret |-> Panic("assertion failed")]
    ELSE LET sum_ct ==
                 sum_pins(encoding, input_ciphertexts,
                          Encrypted(server_key.input_lwe_dimension + 1, Zero32),
                          1)
         IN  [buffer |-> buffer, sum_ct |-> sum_ct, ret |-> sum_ct]

\* variant of evaluate_gate without the assertion on the number of inputs
evaluate_gate_unchecked(buffer, server_key, encoding, input_ciphertexts) ==
    LET sum_ct ==
            sum_pins(encoding, input_ciphertexts,
                     Encrypted(server_key.input_lwe_dimension + 1, Zero32), 1)
        done == bootstrap(buffer, sum_ct, server_key, encoding)
    IN  IF sum_ct.tag = "Panic"
        THEN [buffer |-> buffer, sum_ct |-> sum_ct, ret |-> sum_ct]
        ELSE [buffer |-> done.buffer, sum_ct |-> sum_ct, ret |-> done.ret]

\* GadgetEngine::evaluate_gate; sum_ct is what it hands to bootstrap
evaluate_gate(buffer, server_key, encoding, input_ciphertexts) ==
    IF encoding.pin_count # Len(input_ciphertexts)
    THEN [buffer |-> buffer,
          sum_ct |-> Panic("assertion failed"),
          ret |-> Panic("assertion failed")]
    ELSE LET sum_ct ==
                 sum_pins(encoding, input_ciphertexts,
                          Encrypted(server_key.input_lwe_dimension + 1, Zero32),
                          1)
             done == bootstrap(buffer, sum_ct, server_key, encoding)
         IN  IF sum_ct.tag = "Panic"
             THEN [buffer |-> buffer, sum_ct |-> sum_ct, ret |-> sum_ct]
             ELSE [buffer |-> done.buffer, sum_ct |-> sum_ct, ret |-> done.ret]

(***************************************************************************)
(* Inputs of the model.                                                    *)
(***************************************************************************)
\* the small parameter sets: polynomial_size 8 .. 2^MaxLogN
SmallParameters ==
    {GadgetParameters(SmallLweDimension, 1, 2 ^ e) : e \in 3..MaxLogN}

\* the values of 0..p-1 that are in S, in increasing order
members(S, p) == SelectSeq([i \in 1..p |-> i - 1], LAMBDA x : x \in S)

\* pins of a truth-table row: pins[i + 1] = (tt_row >> i) & 1
pins_of(tt_row, pin_count) ==
    [i \in 1..pin_count |-> (tt_row \div (2 ^ (i - 1))) % 2]

\* the plaintext sum of a gate as the tests compute it, from pin i on:
\* sum_out = ((scalar * pin_in) + sum_out) % p over the reversed scalars
RECURSIVE simulate_sum(_, _, _, _, _)
simulate_sum(input_mappings_1, pins, p, sum_out, i) ==
    IF i > Len(input_mappings_1) \/ i > Len(pins)
    THEN sum_out
    ELSE simulate_sum(
             input_mappings_1, pins, p,
             ((input_mappings_1[Len(input_mappings_1) + 1 - i] * pins[i])
                  + sum_out) % p,
             i + 1)

\* the bit the tests expect of a gate: 0 when the sum is in output_encodings_0
expected_bit(encoding, pins) ==
    IF contains(encoding.output_encodings_0,
                simulate_sum(encoding.input_mappings_1, pins, encoding.p, 0, 1))
    THEN 0
    ELSE 1

\* bits lo .. hi - 1 of the truth table of a gate, as a number: bit `row` is
\* the output of the gate for the pins of the row
RECURSIVE tt_limb(_, _, _, _, _)
tt_limb(p, input_mappings_1, out0, lo, hi) ==
    IF lo >= hi
    THEN 0
    ELSE (IF simulate_sum(input_mappings_1,
                          pins_of(lo, Len(input_mappings_1)), p, 0, 1)
                 \in out0
          THEN 0
          ELSE 1)
             + 2 * tt_limb(p, input_mappings_1, out0, lo + 1, hi)

\* the tt_value that is consistent with the scalars and the output partition
truth_table(p, input_mappings_1, out0) ==
    LET rows == 2 ^ Len(input_mappings_1)
    IN  [k \in 1..8 |->
            tt_limb(p, input_mappings_1, out0, 16 * (k - 1),
                    IF 16 * k < rows THEN 16 * k ELSE rows)]

\* the canonical gate encoding with modulus p, these scalars and the output
\* partition (out0, the rest of 0..p-1)
gate_encoding(p, input_mappings_1, out0) ==
    new_canonical(truth_table(p, input_mappings_1, out0),
                  Len(input_mappings_1), input_mappings_1,
                  members(out0, p), members((0..(p - 1)) \ out0, p), p)

\* two-pin gate encodings of every modulus 1..MaxGateP and output partition
TwoPinEncodings ==
    UNION {{gate_encoding(p, input_mappings_1, out0) :
                input_mappings_1 \in
                    {<<k % p, (2 * k) % p>> : k \in 1..p}
                        \cup {<<1 % p, 1 % p>>},
                out0 \in SUBSET (0..(p - 1))} :
               p \in 1..MaxGateP}

\* the six-pin gate encoding of modulus p with scalars k, 2k, .. 6k mod p
six_pin_encoding(p, k, out0) ==
    gate_encoding(p, [i \in 1..6 |-> (i * k) % p], out0)

\* the pairs of six-pin encodings that are composed: one pair of modulus 2
\* and one of modulus 3
ComposedEncodings ==
    {<<six_pin_encoding(p, 1, {0}), six_pin_encoding(p, p - 1, {1})>> :
         p \in {2, 3}}

\* the parameter set of the composition
ComposeParameters == {GadgetParameters(SmallLweDimension, 1, 32)}

\* the ciphertext vectors a client hands to evaluate_gate: every pin is the
\* encryption of a bit or a Trivial
gate_inputs(parameters, encoding) ==
    [1..encoding.pin_count ->
        {encrypt(b, parameters, encoding) : b \in {0, 1}}
            \cup {Trivial(b) : b \in BOOLEAN}]

\* the canonical one-pin encoding with modulus p whose output partition is
\* (out0, the rest of 0..p-1); its truth table has rows 0 and 1
lookup_encoding(p, out0) ==
    new_canonical(
        u128((IF 0 \in out0 THEN 0 ELSE 1)
                 + (IF p > 1 /\ 1 \notin out0 THEN 2 ELSE 0), 0),
        1, <<1>>, members(out0, p), members((0..(p - 1)) \ out0, p), p)

\* every canonical one-pin encoding with output partition over 0..p-1
LookupEncodings ==
    UNION {{lookup_encoding(p, out0) : out0 \in SUBSET (0..(p - 1))} :
               p \in 0..MaxP}

\* the one-pin encoding of modulus p whose output_encodings_0 is [0]
plain_encoding(p) == lookup_encoding(p, {0} \cap (0..(p - 1)))

\* the word at distance e in {-1, 0, 1} of the word d
neighbour(d, e) ==
    IF e = 0
    THEN d
    ELSE IF e = 1
    THEN wrapping_add(d, u32(0, 1))
    ELSE wrapping_add(d, wrapping_neg(u32(0, 1)))

\* the state of the test drivers when no test runs
NoTest == [name |-> "none"]

(***************************************************************************)
(* Spec: bootstraps served by one engine.  Up to MaxCalls - 1 calls warm   *)
(* the arena; the run ends with a call whose inputs range over every       *)
(* small parameter set, every one-pin encoding and every message.          *)
(***************************************************************************)
\* the encoding of the warming calls: p = 2 and every output is 1, which
\* leaves non-zero coefficients in the accumulator body
WarmEncodings == {lookup_encoding(2, {})}

\* the ciphertexts a client hands to bootstrap under encoding
bootstrap_inputs(parameters, encoding) ==
    {encrypt(m, parameters, encoding) : m \in 0..(encoding.p - 1)}
        \cup (IF encoding.p = 0
              THEN {Encrypted(parameters.lwe_dimension + 1, Zero32)}
              ELSE {})
        \cup {Trivial(b) : b \in BOOLEAN}

Init ==
    /\ memory = <<>>
    /\ call = [op |-> "new", n |-> 0, last |-> FALSE]
    /\ test = NoTest

\* ServerKey::bootstrap(ct, encoding) through the engine of the thread
Bootstrap(parameters, encoding, ct, last) ==
    LET server_key == new_server_key(parameters)
        done == bootstrap(memory, ct, server_key, encoding)
    IN  /\ memory' = done.buffer
        /\ call' = [op |-> "bootstrap", n |-> call.n + 1, last |-> last,
                    parameters |-> parameters, server_key |-> server_key,
                    encoding |-> encoding, ct |-> ct, ret |-> done.ret]
        /\ UNCHANGED test

\* a call that warms the arena
Warm ==
    /\ call.n + 1 < MaxCalls
    /\ ~call.last
    /\ \E parameters \in SmallParameters, encoding \in WarmEncodings :
           Bootstrap(parameters, encoding,
                     encrypt(0, parameters, encoding), FALSE)

\* the last call of the run
Serve ==
    /\ call.n < MaxCalls
    /\ ~call.last
    /\ \E parameters \in SmallParameters, encoding \in LookupEncodings :
           \E ct \in bootstrap_inputs(parameters, encoding) :
               Bootstrap(parameters, encoding, ct, TRUE)

Next == Warm \/ Serve

Spec == Init /\ [][Next]_vars

\* the decryption of what the last call returned
returned_bit == decrypt(call.ret, call.encoding)

\* the last call bootstrapped the encryption of m under a canonical encoding
\* with p >= 2
bootstrapped(m) ==
    /\ call.op = "bootstrap"
    /\ call.encoding.p >= 2
    /\ m < call.encoding.p
    /\ call.ct = encrypt(m, call.parameters, call.encoding)

\* C1 (as stated): for every canonical encoding with p >= 2 and every message
\* m in [0, p), the bootstrap of encrypt(m) decrypts to 0 when m is in
\* output_encodings_0 and to 1 otherwise.
BootstrapIsLookup ==
    \A m \in 0..MaxP :
        bootstrapped(m) =>
            returned_bit =
                IF contains(call.encoding.output_encodings_0, m) THEN 0 ELSE 1

\* C1 (amended): the bootstrap of encrypt(m) decrypts to 0 when m is in
\* output_encodings_0 and to 1 otherwise, for every canonical encoding whose
\* p is odd, p >= 3, under a polynomial size N >= 2 * p * p.
BootstrapIsLookupOddP ==
    \A m \in 0..MaxP :
        (/\ bootstrapped(m)
         /\ call.encoding.p % 2 = 1
         /\ call.server_key.polynomial_size
                >= 2 * call.encoding.p * call.encoding.p)
            => returned_bit =
                   IF contains(call.encoding.output_encodings_0, m)
                   THEN 0
                   ELSE 1

\* C1 witness: on a warmed arena, the message 2 of p = 3, an output-1 value
\* that is read through the negacyclic wrap, has come back as 1
BootstrapIsLookupOddPReached ==
    /\ bootstrapped(2)
    /\ call.n = MaxCalls
    /\ call.encoding.p = 3
    /\ call.server_key.polynomial_size >= 18
    /\ modulus_switch(call.ct.phase, call.server_key.polynomial_size)
           >= call.server_key.polynomial_size
    /\ ~contains(call.encoding.output_encodings_0, 2)
    /\ returned_bit = 1

\* C4: the output of every call, and the accumulator body that the call left
\* for the PBS, equal those of the same call on a fresh engine whose arena is
\* empty.
BufferReuse ==
    call.op = "bootstrap" =>
        LET fresh == bootstrap(<<>>, call.ct, call.server_key, call.encoding)
            body == Views(call.server_key).body
        IN  /\ call.ret = fresh.ret
            /\ (call.ret.tag = "Encrypted" /\ call.ct.tag = "Encrypted") =>
                   view(memory, body) = view(fresh.buffer, body)

\* C9: when 2p divides N, the ranges that as_buffers fills lie in [0, N) and
\* cover every coefficient index of [0, N) exactly once, so the accumulator
\* body after the call holds nothing of an earlier call.
AccumulatorTiles ==
    (/\ call.op = "bootstrap"
     /\ call.ct.tag = "Encrypted"
     /\ call.encoding.p >= 1
     /\ call.server_key.polynomial_size % (2 * call.encoding.p) = 0)
        => LET n == call.server_key.polynomial_size
               ranges == body_ranges(call.encoding.p, n)
               fresh == as_buffers(<<>>, call.server_key, call.encoding)
               body == Views(call.server_key).body
           IN  /\ \A k \in DOMAIN ranges :
                      0 <= ranges[k].lo /\ ranges[k].lo <= ranges[k].hi
                          /\ ranges[k].hi <= n
               /\ \A j \in 0..(n - 1) :
                      Cardinality({k \in DOMAIN ranges :
                                      ranges[k].lo <= j /\ j < ranges[k].hi})
                          = 1
               /\ view(memory, body) = view(fresh.buffer, body)

\* C9 witness: a call with p = 2 on an arena that an earlier call with another
\* polynomial size has written
AccumulatorTilesReached ==
    /\ call.op = "bootstrap"
    /\ call.ct.tag = "Encrypted"
    /\ call.n = MaxCalls
    /\ call.encoding.p = 2
    /\ call.server_key.polynomial_size = 8
    /\ Len(memory) > 28

\* the last call bootstrapped an Encrypted ciphertext under an encoding with
\* p < 2 or with a p such that 2p does not divide N
invalid_modulus ==
    /\ call.op = "bootstrap"
    /\ call.ct.tag = "Encrypted"
    /\ (\/ call.encoding.p < 2
        \/ call.server_key.polynomial_size % (2 * call.encoding.p) # 0)

\* C10 (as stated): a call whose encoding has p < 2, or whose p does not
\* satisfy N = 0 (mod 2p), is rejected with a ParameterError: no ciphertext
\* is returned and the arena of a fresh engine stays empty.
InvalidModulusRejected ==
    invalid_modulus =>
        /\ call.ret.tag = "ParameterError"
        /\ (call.n = 1 => memory = <<>>)

\* C10 (amended): no call is rejected for its modulus.  With p = 0 the call
\* panics on the division by zero after the arena has been resized and the
\* mask zeroed, and returns no ciphertext; with p = 1, or with a p such that
\* 2p does not divide N, every range of the accumulator body is written with
\* its slot, the PBS output is written and a ciphertext is returned.
InvalidModulusServed ==
    invalid_modulus =>
        LET views == Views(call.server_key)
            p == call.encoding.p
            ranges == body_ranges(p, call.server_key.polynomial_size)
            body == view(memory, views.body)
            after_pbs == view(memory, views.buffer_lwe_after_pbs)
        IN  IF p = 0
            THEN /\ call.ret = Panic("attempt to divide by zero")
                 /\ Len(memory) >= views.buffer_lwe_after_pbs.hi
                 /\ \A j \in DOMAIN view(memory, views.mask) :
                        view(memory, views.mask)[j] = Zero32
            ELSE /\ call.ret.tag = "Encrypted"
                 /\ call.ret.lwe_size = call.ct.lwe_size
                 /\ \A k \in DOMAIN ranges :
                        \A j \in (ranges[k].lo + 1)..ranges[k].hi :
                            body[j] = DeltaTimes(
                                          create_accumulator(call.encoding)
                                              [ranges[k].slot], p)
                 /\ after_pbs[Len(after_pbs)] = call.ret.phase

\* C10 witness: a call with p = 3 under N = 8, where 2p does not divide N,
\* has written the accumulator and returned a ciphertext
InvalidModulusServedReached ==
    /\ invalid_modulus
    /\ call.encoding.p = 3
    /\ call.server_key.polynomial_size = 8
    /\ call.ret.tag = "Encrypted"
    /\ view(memory, Views(call.server_key).body)[2] # Zero32

\* x added to itself k times, modulo 2^32
RECURSIVE times(_, _)
times(k, x) == IF k = 0 THEN Zero32 ELSE wrapping_add(times(k - 1, x), x)

\* the last call built the accumulator of an encoding with p >= 2
accumulator_built ==
    /\ call.op = "bootstrap"
    /\ call.ct.tag = "Encrypted"
    /\ call.encoding.p >= 2

\* C19 (as stated): every coefficient written for an accumulator slot equals
\* round(acc[i] * 2^32 / p), which is also the lifting of the plaintexts.
CoefficientsRounded ==
    accumulator_built =>
        LET p == call.encoding.p
            ranges == body_ranges(p, call.server_key.polynomial_size)
            acc == create_accumulator(call.encoding)
            body == view(memory, Views(call.server_key).body)
        IN  \A k \in DOMAIN ranges :
                \A j \in (ranges[k].lo + 1)..ranges[k].hi :
                    /\ body[j] = encode(acc[ranges[k].slot], p)
                    /\ body[j] = ScaleToNative(acc[ranges[k].slot], p)

\* C19 (amended): every coefficient written for an accumulator slot equals
\* floor(2^32 / p) * acc[i] modulo 2^32, which for acc[i] in {0, 1} is the
\* lifting floor(acc[i] * 2^32 / p) of the plaintexts.
CoefficientsTruncated ==
    accumulator_built =>
        LET p == call.encoding.p
            ranges == body_ranges(p, call.server_key.polynomial_size)
            acc == create_accumulator(call.encoding)
            body == view(memory, Views(call.server_key).body)
        IN  \A k \in DOMAIN ranges :
                \A j \in (ranges[k].lo + 1)..ranges[k].hi :
                    LET v == acc[ranges[k].slot]
                    IN  /\ body[j] = times(v, ScaleToNative(1, p))
                        /\ (v <= 1 => body[j] = ScaleToNative(v, p))

\* C19 witness: under p = 3 a coefficient of a slot that holds 2 has been
\* written as 2 * floor(2^32 / 3) = 2863311530, one below the rounded value
CoefficientsTruncatedReached ==
    /\ accumulator_built
    /\ call.encoding.p = 3
    /\ call.ret.tag = "Encrypted"
    /\ \E k \in DOMAIN body_ranges(3, call.server_key.polynomial_size) :
           LET r == body_ranges(3, call.server_key.polynomial_size)[k]
           IN  /\ r.lo < r.hi
               /\ create_accumulator(call.encoding)[r.slot] = 2
               /\ view(memory, Views(call.server_key).body)[r.lo + 1]
                      = u32(43690, 43690)
               /\ encode(2, 3) = u32(43690, 43691)

\* the words that as_buffers needs under the parameters of the last call:
\* (k + 1) N for the accumulator, n + 1 and k N + 1 for the two LWE buffers
words_needed ==
    LET k == call.parameters.glwe_dimension
        N == call.parameters.polynomial_size
        n == call.parameters.lwe_dimension
    IN  [accumulator |-> (k + 1) * N, after_ks |-> n + 1,
         after_pbs |-> (k * N) + 1, mask |-> k * N]

\* the arena and the views after a call that ran as_buffers
ArenaLayout ==
    (call.op = "bootstrap" /\ call.ct.tag = "Encrypted") =>
        LET w == words_needed
            views == Views(call.server_key)
        IN  /\ Len(memory) >= w.accumulator + w.after_ks + w.after_pbs
            /\ views.mask.lo = 0
            /\ views.mask.hi = views.body.lo
            /\ views.body.hi = w.accumulator
            /\ views.buffer_lwe_after_ks.lo = w.accumulator
            /\ views.buffer_lwe_after_ks.hi = w.accumulator + w.after_ks
            /\ views.buffer_lwe_after_pbs.lo = w.accumulator + w.after_ks
            /\ views.buffer_lwe_after_pbs.hi
                   = w.accumulator + w.after_ks + w.after_pbs
            /\ view(memory, views.mask) = [j \in 1..w.mask |-> Zero32]

\* a step never shortens the arena, and lengthens it only to what the call
\* needs
ArenaGrowth ==
    /\ Len(memory') >= Len(memory)
    /\ Len(memory') > Len(memory) =>
           /\ call'.op = "bootstrap"
           /\ call'.ct.tag = "Encrypted"
           /\ LET k == call'.parameters.glwe_dimension
                  N == call'.parameters.polynomial_size
                  n == call'.parameters.lwe_dimension
              IN  Len(memory') = ((k + 1) * N) + (n + 1) + ((k * N) + 1)

\* C20: after every as_buffers call the arena holds at least
\* (k+1)N + (n+1) + (kN+1) words; the views are contiguous, disjoint and in
\* the order accumulator, post-keyswitch LWE, post-PBS LWE; the accumulator
\* mask is all zero; and over any sequence of calls the arena never shrinks
\* and grows only to what the current call needs.
ArenaViews == [](ArenaLayout) /\ [][ArenaGrowth]_vars

\* C20 witness: a call under N = 8 has run on an arena that a call under a
\* larger N had grown, and the arena kept its length
ArenaViewsReached ==
    /\ call.op = "bootstrap"
    /\ call.ct.tag = "Encrypted"
    /\ call.n > 1
    /\ call.parameters.polynomial_size = 8
    /\ Len(memory) > 28

\* C23: when 2p does not divide N, the ranges that as_buffers fills are
\* pairwise disjoint and lie in [0, N); the coefficients they leave unwritten
\* are the N - (p-1) floor(N/p) - 2 floor(N/(2p)) indices of
\* [(p-1) floor(N/p) + floor(N/(2p)), N - floor(N/(2p))), and these keep what
\* the arena held before the call, zero where the arena is fresh.
GapKeepsArena ==
    [][(/\ call'.op = "bootstrap"
        /\ call'.n = call.n + 1
        /\ call'.ct.tag = "Encrypted"
        /\ call'.encoding.p >= 1
        /\ call'.server_key.polynomial_size % (2 * call'.encoding.p) # 0)
           => LET n == call'.server_key.polynomial_size
                  q == call'.encoding.p
                  ranges == body_ranges(q, n)
                  gap_lo == ((q - 1) * (n \div q)) + (n \div (2 * q))
                  gap_hi == n - (n \div (2 * q))
                  body == Views(call'.server_key).body
              IN  /\ \A k \in DOMAIN ranges :
                         0 <= ranges[k].lo /\ ranges[k].lo <= ranges[k].hi
                             /\ ranges[k].hi <= n
                  /\ \A k \in DOMAIN ranges, l \in DOMAIN ranges :
                         k < l => ranges[k].hi <= ranges[l].lo
                  \* the ranges but the last cover [0, gap_lo) without a
                  \* hole, and the last is [gap_hi, n)
                  /\ ranges[1].lo = 0
                  /\ \A k \in 1..(q - 1) : ranges[k].hi = ranges[k + 1].lo
                  /\ ranges[q].hi = gap_lo
                  /\ ranges[q + 1].lo = gap_hi
                  /\ ranges[q + 1].hi = n
                  /\ gap_hi - gap_lo
                         = n - ((q - 1) * (n \div q)) - (2 * (n \div (2 * q)))
                  /\ gap_lo < gap_hi
                  /\ \A j \in (gap_lo + 1)..gap_hi :
                         memory'[body.lo + j] =
                             IF body.lo + j <= Len(memory)
                             THEN memory[body.lo + j]
                             ELSE Zero32]_vars

\* C23 witness: a call with p = 3 under N = 8 has left the coefficients 5 and
\* 6 unwritten, and coefficient 5 still holds the 2^31 that an earlier call
\* with p = 2 wrote
GapKeepsArenaReached ==
    /\ call.op = "bootstrap"
    /\ call.ct.tag = "Encrypted"
    /\ call.n = MaxCalls
    /\ call.encoding.p = 3
    /\ call.server_key.polynomial_size = 8
    /\ view(memory, Views(call.server_key).body)[6] = u32(32768, 0)

(***************************************************************************)
(* SpecRecoded: bootstraps on a fresh engine under one-pin encodings whose *)
(* outputs are recoded to any new_0 and new_1 below new_p = p.             *)
(***************************************************************************)
\* every one-pin encoding of a modulus 2 .. MaxP with new_0, new_1 < new_p
RecodedEncodings ==
    UNION {{[encoding EXCEPT !.new_0 = new_0, !.new_1 = new_1] :
                new_0 \in 0..(encoding.p - 1),
                new_1 \in 0..(encoding.p - 1)} :
               encoding \in {e \in LookupEncodings : e.p >= 2}}

\* ServerKey::bootstrap of the encryption of the smallest or the largest
\* message under such an encoding
ServeRecoded ==
    /\ call.n < MaxCalls
    /\ ~call.last
    /\ \E parameters \in SmallParameters, encoding \in RecodedEncodings :
           \E m \in {0, encoding.p - 1} :
               Bootstrap(parameters, encoding,
                         encrypt(m, parameters, encoding), TRUE)

SpecRecoded == Init /\ [][ServeRecoded]_vars

\* C30: for every encoding with new_0 < new_p, new_1 < new_p and
\* new_p = p >= 2, every entry of create_accumulator is below p: the
\* subtractions new_p - new_x are not negative; and every coefficient
\* floor(2^32 / p) * acc[i] that as_buffers writes is below 2^32, so that the
\* word written is the product itself.
AccumulatorInRange ==
    (/\ call.op = "bootstrap"
     /\ call.ct.tag = "Encrypted"
     /\ call.encoding.p >= 2
     /\ call.encoding.new_p = call.encoding.p
     /\ call.encoding.new_0 < call.encoding.new_p
     /\ call.encoding.new_1 < call.encoding.new_p) =>
        LET encoding == call.encoding
            p == encoding.p
            acc == create_accumulator(encoding)
            ranges == body_ranges(p, call.server_key.polynomial_size)
            body == view(memory, Views(call.server_key).body)
            step_hi == Limb \div p
            step_lo == ((Limb % p) * Limb) \div p
            product(a) ==
                [lo |-> (step_lo * a) % Limb,
                 hi |-> (step_hi * a) + ((step_lo * a) \div Limb)]
        IN  /\ encoding.new_p - encoding.new_0 \in 1..p
            /\ encoding.new_p - encoding.new_1 \in 1..p
            /\ DOMAIN acc = 0..p
            /\ \A i \in 0..p :
                   /\ acc[i] \in 0..(p - 1)
                   /\ acc[i] \in {0, encoding.new_0, encoding.new_1,
                                  (p - encoding.new_0) % p,
                                  (p - encoding.new_1) % p}
                   /\ product(acc[i]).hi < Limb
            /\ \A k \in DOMAIN ranges :
                   \A j \in (ranges[k].lo + 1)..ranges[k].hi :
                       body[j] = u32(product(acc[ranges[k].slot]).hi,
                                     product(acc[ranges[k].slot]).lo)

\* C30 witness: under p = 5 with new_0 = 4 an accumulator slot holds 4 and
\* its coefficient 4 * floor(2^32 / 5) = 3435973836 has been written
AccumulatorInRangeReached ==
    /\ call.op = "bootstrap"
    /\ call.ct.tag = "Encrypted"
    /\ call.encoding.p = 5
    /\ call.encoding.new_p = 5
    /\ call.encoding.new_0 = 4
    /\ call.encoding.new_1 = 1
    /\ \E i \in 0..5 : create_accumulator(call.encoding)[i] = 4
    /\ contains(view(memory, Views(call.server_key).body),
                u32(52428, 52428))

(***************************************************************************)
(* SpecGate: gate evaluations served by one engine whose arena earlier     *)
(* bootstraps may have warmed.                                             *)
(***************************************************************************)
\* ServerKey::evaluate_gate(input_ciphertexts, encoding) through the engine
EvaluateGate ==
    /\ call.n < MaxCalls
    /\ ~call.last
    /\ \E parameters \in SmallParameters, encoding \in TwoPinEncodings :
           \E input_ciphertexts \in gate_inputs(parameters, encoding) :
               LET server_key == new_server_key(parameters)
                   done == evaluate_gate(memory, server_key, encoding,
                                         input_ciphertexts)
               IN  /\ memory' = done.buffer
                   /\ call' = [op |-> "evaluate_gate", n |-> call.n + 1,
                               last |-> TRUE, parameters |-> parameters,
                               server_key |-> server_key,
                               encoding |-> encoding,
                               input_ciphertexts |-> input_ciphertexts,
                               sum_ct |-> done.sum_ct, ret |-> done.ret]
    /\ UNCHANGED test

NextGate == Warm \/ EvaluateGate

SpecGate == Init /\ [][NextGate]_vars

\* the bit that a pin ciphertext carries
plaintext_bit(ct, encoding) ==
    IF ct.tag = "Trivial"
    THEN IF ct.value THEN 1 ELSE 0
    ELSE decrypt(ct, encoding)

\* the bits of the pins of the last gate evaluation
pin_bits ==
    [i \in 1..Len(call.input_ciphertexts) |->
        plaintext_bit(call.input_ciphertexts[i], call.encoding)]

\* C6: an evaluation in which any subset of the pins is Trivial decrypts to
\* the same value as the evaluation, on the same engine, of the encryptions
\* of the same bits.
TrivialEncryptedParity ==
    (call.op = "evaluate_gate" /\ call.encoding.p >= 2) =>
        LET all_encrypted ==
                [i \in 1..Len(call.input_ciphertexts) |->
                    encrypt(pin_bits[i], call.parameters, call.encoding)]
            reference ==
                evaluate_gate(memory, call.server_key, call.encoding,
                              all_encrypted)
        IN  decrypt(call.ret, call.encoding)
                = decrypt(reference.ret, call.encoding)

\* C6 witness: with scalars [1, 2] of p = 3, pin 0 is Trivial(true) and is
\* paired with the scalar 2, pin 1 is an encrypted 1; the sum 0 is looked up
TrivialEncryptedParityReached ==
    /\ call.op = "evaluate_gate"
    /\ call.encoding.p = 3
    /\ call.encoding.input_mappings_1 = <<1, 2>>
    /\ call.input_ciphertexts[1] = Trivial(TRUE)
    /\ call.input_ciphertexts[2].tag = "Encrypted"
    /\ pin_bits = <<1, 1>>
    /\ call.server_key.polynomial_size = 32
    /\ decrypt(call.ret, call.encoding)
           = IF contains(call.encoding.output_encodings_0, 0) THEN 0 ELSE 1

\* C7: when inputs.len() = pin_count = input_mappings_1.len(), the sum
\* ciphertext handed to bootstrap decodes to the sum over the pins i of
\* input_mappings_1[m-1-i] * b_i modulo p.
SumIsLinear ==
    (/\ call.op = "evaluate_gate"
     /\ call.encoding.p >= 2
     /\ Len(call.input_ciphertexts) = call.encoding.pin_count
     /\ Len(call.encoding.input_mappings_1) = call.encoding.pin_count)
        => /\ call.sum_ct.tag = "Encrypted"
           /\ decrypt(call.sum_ct, call.encoding)
                  = simulate_sum(call.encoding.input_mappings_1, pin_bits,
                                 call.encoding.p, 0, 1)

\* C7 witness: with scalars [1, 2] of p = 3 only pin 0 is 1, and the sum
\* decodes to 2, the last scalar
SumIsLinearReached ==
    /\ call.op = "evaluate_gate"
    /\ call.encoding.p = 3
    /\ call.encoding.input_mappings_1 = <<1, 2>>
    /\ pin_bits = <<1, 0>>
    /\ call.sum_ct.tag = "Encrypted"
    /\ decrypt(call.sum_ct, call.encoding) = 2

(***************************************************************************)
(* SpecTrivial: bootstraps and gate evaluations served by one engine; the  *)
(* inputs of both include Trivial ciphertexts.                             *)
(***************************************************************************)
NextTrivial == Warm \/ Serve \/ EvaluateGate

SpecTrivial == Init /\ [][NextTrivial]_vars

\* C25: bootstrap on Trivial(c) returns Trivial(c) under every encoding,
\* without the lookup, and leaves the arena as it found it; evaluate_gate
\* whose inputs are all Trivial hands an Encrypted sum to bootstrap, which
\* runs bootstrap_keyswitch on the arena and returns an Encrypted ciphertext.
TrivialPassesThrough ==
    [][call'.n = call.n + 1 =>
           /\ (call'.op = "bootstrap" /\ call'.ct.tag = "Trivial") =>
                  /\ call'.ret = call'.ct
                  /\ memory' = memory
           /\ (/\ call'.op = "evaluate_gate"
               /\ \A i \in DOMAIN call'.input_ciphertexts :
                      call'.input_ciphertexts[i].tag = "Trivial") =>
                  LET done == bootstrap_keyswitch(memory, call'.sum_ct,
                                                  call'.server_key,
                                                  call'.encoding)
                  IN  /\ call'.sum_ct.tag = "Encrypted"
                      /\ call'.ret.tag = "Encrypted"
                      /\ call'.ret = done.ret
                      /\ memory' = done.buffer
                      /\ memory' # <<>>]_vars

\* C25 witness: on a warmed arena, Trivial(true) has come back from a
\* bootstrap under an encoding of p = 3 that maps the value 1 to the output 0
TrivialPassesThroughReached ==
    /\ call.op = "bootstrap"
    /\ call.n = MaxCalls
    /\ call.ct = Trivial(TRUE)
    /\ call.encoding.p = 3
    /\ contains(call.encoding.output_encodings_0, 1)
    /\ call.ret = Trivial(TRUE)
    /\ memory # <<>>

(***************************************************************************)
(* SpecArity: gate evaluations whose input vector is one shorter or one    *)
(* longer than pin_count, on an engine that earlier bootstraps may have    *)
(* warmed.                                                                 *)
(***************************************************************************)
\* one two-pin gate encoding of every modulus 1..MaxGateP
ArityEncodings ==
    {gate_encoding(p, <<1 % p, 1 % p>>, {0}) : p \in 1..MaxGateP}

\* input vectors with pin_count - 1 or pin_count + 1 ciphertexts
mismatched_inputs(parameters, encoding) ==
    UNION {[1..len ->
               {encrypt(b, parameters, encoding) : b \in {0, 1}}
                   \cup {Trivial(TRUE)}] :
               len \in {encoding.pin_count - 1, encoding.pin_count + 1}}

\* ServerKey::evaluate_gate with a wrong number of inputs
EvaluateGateMismatched ==
    /\ call.n < MaxCalls
    /\ ~call.last
    /\ \E parameters \in SmallParameters, encoding \in ArityEncodings :
           \E input_ciphertexts \in mismatched_inputs(parameters, encoding) :
               LET server_key == new_server_key(parameters)
                   done == evaluate_gate(memory, server_key, encoding,
                                         input_ciphertexts)
               IN  /\ memory' = done.buffer
                   /\ call' = [op |-> "evaluate_gate", n |-> call.n + 1,
                               last |-> TRUE, parameters |-> parameters,
                               server_key |-> server_key,
                               encoding |-> encoding,
                               input_ciphertexts |-> input_ciphertexts,
                               sum_ct |-> done.sum_ct, ret |-> done.ret]
    /\ UNCHANGED test

NextArity == Warm \/ EvaluateGateMismatched

SpecArity == Init /\ [][NextArity]_vars

\* C11: evaluate_gate called with a number of inputs other than pin_count
\* fails on its assertion: no sum is computed, no ciphertext is returned and
\* the arena is left as the call found it.
ArityMismatchRejected ==
    [][(/\ call'.op = "evaluate_gate"
        /\ call'.n = call.n + 1
        /\ call'.encoding.pin_count # Len(call'.input_ciphertexts))
           => /\ call'.sum_ct = Panic("assertion failed")
              /\ call'.ret = Panic("assertion failed")
              /\ memory' = memory]_vars

\* C11 witness: a gate evaluation with three inputs for two pins has failed
\* on an arena that an earlier bootstrap had filled
ArityMismatchRejectedReached ==
    /\ call.op = "evaluate_gate"
    /\ call.n > 1
    /\ Len(call.input_ciphertexts) = call.encoding.pin_count + 1
    /\ call.ret.tag = "Panic"
    /\ memory # <<>>

(***************************************************************************)
(* SpecZip: gate evaluations under encodings whose input_mappings_1 has    *)
(* fewer or more scalars than pin_count, on an engine that earlier         *)
(* bootstraps may have warmed.                                             *)
(***************************************************************************)
\* two-pin encodings with one or three scalars, built by new_canonical
ZipEncodings ==
    {new_canonical(u128(0, 0), 2, input_mappings_1, <<0>>,
                   members(1..(p - 1), p), p) :
         input_mappings_1 \in {<<1>>, <<2>>, <<2, 1, 1>>, <<1, 1, 2>>},
         p \in 2..MaxGateP}

\* ServerKey::evaluate_gate with pin_count inputs under such an encoding
EvaluateGateZipped ==
    /\ call.n < MaxCalls
    /\ ~call.last
    /\ \E parameters \in SmallParameters, encoding \in ZipEncodings :
           \E input_ciphertexts \in gate_inputs(parameters, encoding) :
               LET server_key == new_server_key(parameters)
                   done == evaluate_gate(memory, server_key, encoding,
                                         input_ciphertexts)
               IN  /\ memory' = done.buffer
                   /\ call' = [op |-> "evaluate_gate", n |-> call.n + 1,
                               last |-> TRUE, parameters |-> parameters,
                               server_key |-> server_key,
                               encoding |-> encoding,
                               input_ciphertexts |-> input_ciphertexts,
                               sum_ct |-> done.sum_ct, ret |-> done.ret]
    /\ UNCHANGED test

NextZip == Warm \/ EvaluateGateZipped

SpecZip == Init /\ [][NextZip]_vars

\* C26: with inputs.len() = pin_count and L = input_mappings_1.len() other
\* than pin_count the call does not fail: inputs[i] is paired with
\* input_mappings_1[L-1-i] for i < min(L, pin_count); with L < pin_count the
\* inputs at positions >= L do not enter the sum, and with L > pin_count the
\* first L - pin_count scalars are not used.
ScalarsZippedShortest ==
    (/\ call.op = "evaluate_gate"
     /\ Len(call.input_ciphertexts) = call.encoding.pin_count
     /\ Len(call.encoding.input_mappings_1) # call.encoding.pin_count) =>
        LET encoding == call.encoding
            scalars == encoding.input_mappings_1
            L == Len(scalars)
            pin_count == encoding.pin_count
            paired == IF L < pin_count THEN L ELSE pin_count
            term(i) == (scalars[L - i] * pin_bits[i + 1]) % encoding.p
            without_dropped ==
                [i \in 1..pin_count |->
                    IF i > L THEN Trivial(FALSE) ELSE call.input_ciphertexts[i]]
            without_unused ==
                [encoding EXCEPT
                    !.input_mappings_1 =
                        [j \in 1..L |->
                            IF j <= L - pin_count THEN 0 ELSE scalars[j]]]
        IN  /\ call.sum_ct.tag = "Encrypted"
            /\ call.ret.tag = "Encrypted"
            /\ decrypt(call.sum_ct, encoding)
                   = ((IF paired >= 1 THEN term(0) ELSE 0)
                          + (IF paired >= 2 THEN term(1) ELSE 0)) % encoding.p
            /\ evaluate_gate(<<>>, call.server_key, encoding,
                             without_dropped).sum_ct = call.sum_ct
            /\ evaluate_gate(<<>>, call.server_key, without_unused,
                             call.input_ciphertexts).sum_ct = call.sum_ct

\* C26 witness: under p = 3 with the one scalar [2] and two pins, the
\* encryptions of (1, 1) have been evaluated: the sum decodes to 2, the
\* second input is not in it, and a ciphertext has been returned
ScalarsZippedShortestReached ==
    /\ call.op = "evaluate_gate"
    /\ call.encoding.p = 3
    /\ call.encoding.pin_count = 2
    /\ call.encoding.input_mappings_1 = <<2>>
    /\ pin_bits = <<1, 1>>
    /\ call.input_ciphertexts[2].tag = "Encrypted"
    /\ decrypt(call.sum_ct, call.encoding) = 2
    /\ call.ret.tag = "Encrypted"

(***************************************************************************)
(* SpecAndGate: the two-pin AND gate of modulus 3, evaluated under         *)
(* DEFAULT_PARAMETERS and under the small parameter sets with N >= 2 p^2,  *)
(* on an engine that earlier bootstraps may have warmed.                   *)
(***************************************************************************)
\* the canonical encoding of the two-pin AND gate
AndGate == new_canonical(u128(8, 0), 2, <<1, 1>>, <<0, 1>>, <<2>>, 3)

AndGateParameters ==
    {DEFAULT_PARAMETERS}
        \cup {parameters \in SmallParameters :
                  parameters.polynomial_size >= 2 * AndGate.p * AndGate.p}

\* ServerKey::evaluate_gate(input_ciphertexts, AndGate)
EvaluateAndGate ==
    /\ call.n < MaxCalls
    /\ ~call.last
    /\ \E parameters \in AndGateParameters :
           \E input_ciphertexts \in gate_inputs(parameters, AndGate) :
               LET server_key == new_server_key(parameters)
                   done == evaluate_gate(memory, server_key, AndGate,
                                         input_ciphertexts)
               IN  /\ memory' = done.buffer
                   /\ call' = [op |-> "evaluate_gate", n |-> call.n + 1,
                               last |-> TRUE, parameters |-> parameters,
                               server_key |-> server_key,
                               encoding |-> AndGate,
                               input_ciphertexts |-> input_ciphertexts,
                               sum_ct |-> done.sum_ct, ret |-> done.ret]
    /\ UNCHANGED test

NextAndGate == Warm \/ EvaluateAndGate

SpecAndGate == Init /\ [][NextAndGate]_vars

\* C13: for the two-pin gate p = 3, input_mappings_1 = [1, 1],
\* output_encodings_0 = [0, 1], output_encodings_1 = [2], tt_value = 8 and
\* every input (a, b), the output of evaluate_gate decrypts to a AND b, which
\* is also (tt_value >> (a + 2b)) & 1.
AndGateIsAnd ==
    (call.op = "evaluate_gate" /\ call.encoding = AndGate) =>
        LET a == pin_bits[1]
            b == pin_bits[2]
            output == decrypt(call.ret, call.encoding)
        IN  /\ call.ret.tag = "Encrypted"
            /\ output = (IF a = 1 /\ b = 1 THEN 1 ELSE 0)
            /\ output = tt_bit(call.encoding.tt_value, a + 2 * b)

\* C13 witness: under DEFAULT_PARAMETERS the encryptions of (1, 1) have been
\* evaluated to a ciphertext that decrypts to 1
AndGateIsAndReached ==
    /\ call.op = "evaluate_gate"
    /\ call.encoding = AndGate
    /\ call.parameters = DEFAULT_PARAMETERS
    /\ call.input_ciphertexts =
           [i \in 1..2 |-> encrypt(1, call.parameters, AndGate)]
    /\ decrypt(call.ret, AndGate) = 1

(***************************************************************************)
(* SpecCompose: tests::evaluate_multiple_gates for a parameter set and two *)
(* six-pin encodings of one modulus: six evaluations of the first gate on  *)
(* truth-table rows of any choice feed one evaluation of the second gate.  *)
(***************************************************************************)
InitCompose ==
    /\ memory = <<>>
    /\ call = [op |-> "new", n |-> 0, last |-> FALSE]
    /\ test \in
           {[name |-> "evaluate_multiple_gates", pc |-> "first",
             parameters |-> parameters, encodings |-> encodings,
             second_gate_encrypted_inputs |-> <<>>,
             second_gate_plaintext_inputs |-> <<>>,
             encrypted_output |-> Trivial(FALSE),
             expected_bit |-> 0, output_bit |-> 0] :
               parameters \in ComposeParameters,
               encodings \in ComposedEncodings}

\* one evaluation of the first gate on the encrypted pins of a row, and the
\* plaintext simulation of it
TestFirstGate ==
    /\ test.name = "evaluate_multiple_gates"
    /\ test.pc = "first"
    /\ \E tt_row \in 0..(2 ^ test.encodings[1].pin_count - 1) :
           LET encoding == test.encodings[1]
               pins == pins_of(tt_row, encoding.pin_count)
               input_ciphertexts ==
                   [i \in 1..encoding.pin_count |->
                       encrypt(pins[i], test.parameters, encoding)]
               server_key == new_server_key(test.parameters)
               done == evaluate_gate(memory, server_key, encoding,
                                     input_ciphertexts)
               outputs ==
                   Append(test.second_gate_encrypted_inputs, done.ret)
           IN  /\ memory' = done.buffer
               /\ call' = [op |-> "evaluate_gate", n |-> 1, last |-> FALSE]
               /\ test' = [test EXCEPT
                              !.pc = IF Len(outputs) = 6
                                     THEN "second"
                                     ELSE "first",
                              !.second_gate_encrypted_inputs = outputs,
                              !.second_gate_plaintext_inputs =
                                  Append(@, expected_bit(encoding, pins))]

\* the evaluation of the second gate on the six outputs, and the plaintext
\* simulation of it
TestSecondGate ==
    /\ test.name = "evaluate_multiple_gates"
    /\ test.pc = "second"
    /\ LET encoding == test.encodings[2]
           done == evaluate_gate(memory, new_server_key(test.parameters),
                                 encoding, test.second_gate_encrypted_inputs)
       IN  /\ memory' = done.buffer
           /\ call' = [op |-> "evaluate_gate", n |-> 2, last |-> FALSE]
           /\ test' = [test EXCEPT
                          !.pc = "decrypt",
                          !.encrypted_output = done.ret,
                          !.expected_bit =
                              expected_bit(encoding,
                                           test.second_gate_plaintext_inputs)]

\* client_key.decrypt(&encrypted_output, p)
TestDecryptComposed ==
    /\ test.name = "evaluate_multiple_gates"
    /\ test.pc = "decrypt"
    /\ test' = [test EXCEPT
                   !.pc = "assert",
                   !.output_bit =
                       decrypt(test.encrypted_output, test.encodings[2])]
    /\ UNCHANGED <<memory, call>>

\* assert_eq!(expected_bit, output_bit)
TestAssertComposed ==
    /\ test.name = "evaluate_multiple_gates"
    /\ test.pc = "assert"
    /\ test' = [test EXCEPT
                   !.pc = IF test.expected_bit = test.output_bit
                          THEN "done"
                          ELSE "failed"]
    /\ UNCHANGED <<memory, call>>

NextCompose ==
    TestFirstGate \/ TestSecondGate \/ TestDecryptComposed
        \/ TestAssertComposed

SpecCompose == InitCompose /\ [][NextCompose]_vars

\* C3 (as stated): for two canonical six-pin encodings of one modulus and
\* every choice of the six rows, the decryption of the second gate's output
\* equals the plaintext composition of the two gates.
ComposedGates ==
    (test.name = "evaluate_multiple_gates" /\ test.pc = "assert") =>
        test.output_bit = test.expected_bit

\* C3 (amended): the decryption of the second gate's output equals the
\* plaintext composition of the two gates when the modulus p of the two
\* encodings is odd, p >= 3, and the polynomial size is N >= 2 * p * p.
ComposedGatesOddP ==
    (/\ test.name = "evaluate_multiple_gates"
     /\ test.pc = "assert"
     /\ test.encodings[1].p % 2 = 1
     /\ test.parameters.polynomial_size
            >= 2 * test.encodings[1].p * test.encodings[1].p)
        => test.output_bit = test.expected_bit

\* C3 witness: with p = 3 the second gate received ones and zeros from the
\* first gate and its output 1 is the plaintext composition
ComposedGatesOddPReached ==
    /\ test.name = "evaluate_multiple_gates"
    /\ test.pc = "assert"
    /\ test.encodings[1].p = 3
    /\ test.parameters.polynomial_size >= 18
    /\ contains(test.second_gate_plaintext_inputs, 0)
    /\ contains(test.second_gate_plaintext_inputs, 1)
    /\ test.expected_bit = 1
    /\ test.output_bit = 1

(***************************************************************************)
(* SpecCodec: a client that encrypts a message and decrypts the result, or *)
(* decrypts a ciphertext it was handed.                                    *)
(***************************************************************************)
InitCodec ==
    /\ memory = <<>>
    /\ call = [op |-> "new"]
    /\ test = NoTest

\* ClientKey / GadgetEngine::encrypt of message under encoding
Encrypt ==
    /\ call.op = "new"
    /\ \E parameters \in SmallParameters, p \in 0..MaxCodecP,
          message \in 0..MaxCodecP :
           call' = [op |-> "encrypt", message |-> message,
                    encoding |-> plain_encoding(p),
                    ret |-> encrypt(message, parameters, plain_encoding(p))]
    /\ UNCHANGED <<memory, test>>

\* GadgetEngine::decrypt of the ciphertext the last encrypt returned
DecryptReturned ==
    /\ call.op = "encrypt"
    /\ call.ret.tag # "Panic"
    /\ \E p \in 0..MaxCodecP :
           call' = [op |-> "decrypt", ct |-> call.ret, of |-> call,
                    encoding |-> plain_encoding(p),
                    ret |-> decrypt(call.ret, plain_encoding(p))]
    /\ UNCHANGED <<memory, test>>

\* GadgetEngine::decrypt of a ciphertext whose phase is the native encoding
\* of a message of some modulus or a neighbour of it
DecryptPhase ==
    /\ call.op = "new"
    /\ \E p \in 0..MaxCodecP, m \in 0..MaxCodecP, q \in 1..MaxCodecP,
          e \in {-1, 0, 1} :
           LET ct == Encrypted(SmallLweDimension + 1,
                               neighbour(ScaleToNative(m, q), e))
           IN  call' = [op |-> "decrypt", ct |-> ct, of |-> [op |-> "new"],
                        encoding |-> plain_encoding(p),
                        ret |-> decrypt(ct, plain_encoding(p))]
    /\ UNCHANGED <<memory, test>>

\* GadgetEngine::decrypt of a Trivial ciphertext
DecryptTrivial ==
    /\ call.op = "new"
    /\ \E p \in 0..MaxCodecP, b \in BOOLEAN :
           call' = [op |-> "decrypt", ct |-> Trivial(b), of |-> [op |-> "new"],
                    encoding |-> plain_encoding(p),
                    ret |-> decrypt(Trivial(b), plain_encoding(p))]
    /\ UNCHANGED <<memory, test>>

NextCodec == Encrypt \/ DecryptReturned \/ DecryptPhase \/ DecryptTrivial

SpecCodec == InitCodec /\ [][NextCodec]_vars

\* C5: for every p >= 2 and every m in [0, p), decrypting under p what
\* encrypt returned for m under p gives m back.
EncodeDecodeRoundTrip ==
    (/\ call.op = "decrypt"
     /\ call.of.op = "encrypt"
     /\ call.encoding.p >= 2
     /\ call.of.encoding.p = call.encoding.p
     /\ call.of.message < call.encoding.p)
        => call.ret = call.of.message

\* C5 witness: the largest message of an odd modulus, whose encoding is not
\* a multiple of 2^32 / p, has come back
EncodeDecodeRoundTripReached ==
    /\ call.op = "decrypt"
    /\ call.of.op = "encrypt"
    /\ call.encoding.p = 3
    /\ call.of.encoding.p = 3
    /\ call.of.message = 2
    /\ call.ct.phase = u32(43690, 43690)
    /\ call.ret = 2

\* C8: for every p >= 2, decrypt of an Encrypted ciphertext of any phase and
\* of any Trivial ciphertext returns a value v with 0 <= v < p.
DecryptInRange ==
    (call.op = "decrypt" /\ call.encoding.p >= 2)
        => (call.ret \in 0..(call.encoding.p - 1))

\* C8 witness: a phase just below 2^32 rounds to p and is reduced to 0
DecryptInRangeReached ==
    /\ call.op = "decrypt"
    /\ call.encoding.p >= 2
    /\ call.ct.tag = "Encrypted"
    /\ RoundToP(call.ct.phase, call.encoding.p) = call.encoding.p
    /\ call.ret = 0

(***************************************************************************)
(* SpecNoise: a client that decrypts ciphertexts whose phase is the        *)
(* lifting of a message plus or minus an error.                            *)
(***************************************************************************)
\* floor(2^31 / p) - 1 as a word, for 2 <= p < 2^15: the largest |e| with
\* |e| * p + p <= 2^31
tolerance(p) ==
    wrapping_add(u32((Limb \div 2) \div p,
                     (((Limb \div 2) % p) * Limb) \div p),
                 wrapping_neg(u32(0, 1)))

\* the magnitudes of the errors: none, one, one near half of the largest
\* tolerated one, the largest tolerated one and the one above it
magnitudes(p) ==
    {Zero32, u32(0, 1), u32(tolerance(p)[1] \div 2, tolerance(p)[2]),
     tolerance(p), wrapping_add(tolerance(p), u32(0, 1))}

\* GadgetEngine::decrypt of a ciphertext whose phase is
\* floor(2^32 m / p) + e or floor(2^32 m / p) - e modulo 2^32
DecryptNoisy ==
    /\ call.op = "new"
    /\ \E p \in 2..MaxCodecP, e \in UNION {magnitudes(q) : q \in 2..MaxCodecP},
          negative \in BOOLEAN :
           \E m \in 0..(p - 1) :
               LET ct == Encrypted(
                             SmallLweDimension + 1,
                             wrapping_add(ScaleToNative(m, p),
                                          IF negative
                                          THEN wrapping_neg(e)
                                          ELSE e))
               IN  call' = [op |-> "decrypt", ct |-> ct,
                            of |-> [op |-> "noise", message |-> m, e |-> e,
                                    negative |-> negative],
                            encoding |-> plain_encoding(p),
                            ret |-> decrypt(ct, plain_encoding(p))]
    /\ UNCHANGED <<memory, test>>

SpecNoise == InitCodec /\ [][DecryptNoisy]_vars

\* |e| * p + p <= 2^31 for the magnitude |e| held as a word
within_tolerance(e, p) ==
    LET t0 == (e[2] * p) + p
        t1 == (e[1] * p) + (t0 \div Limb)
    IN  \/ t1 < Limb \div 2
        \/ (t1 = Limb \div 2 /\ t0 % Limb = 0)

\* C27: for every p >= 2, every m in [0, p) and every e with
\* |e| * p + p <= 2^31, the phase (floor(2^32 m / p) + e) mod 2^32 decrypts
\* to m; for m = 0 and e < 0 the rounded value p is reduced to 0.
DecodingTolerance ==
    (/\ call.op = "decrypt"
     /\ call.of.op = "noise"
     /\ call.encoding.p >= 2
     /\ within_tolerance(call.of.e, call.encoding.p)) =>
        /\ call.ret = call.of.message
        /\ (call.of.message = 0 /\ call.of.negative /\ call.of.e # Zero32) =>
               RoundToP(call.ct.phase, call.encoding.p) = call.encoding.p

\* C27 witness: under p = 23 the phase 2^32 - 93368853, the lifting of 0
\* minus the largest tolerated error, has been decrypted to 0
DecodingToleranceReached ==
    /\ call.op = "decrypt"
    /\ call.of.op = "noise"
    /\ call.encoding.p = 23
    /\ call.of.message = 0
    /\ call.of.negative
    /\ call.of.e = tolerance(23)
    /\ call.of.e = u32(1424, 45589)
    /\ within_tolerance(call.of.e, 23)
    /\ ~within_tolerance(wrapping_add(call.of.e, u32(0, 1)), 23)
    /\ call.ret = 0

(***************************************************************************)
(* SpecLift: the plaintext lifting of encrypt and of the Trivial(true)     *)
(* branch of evaluate_gate, applied to messages and scalars of the full    *)
(* 32-bit range.                                                           *)
(***************************************************************************)
\* variant of lift whose cast saturates instead of dropping the high bits
lift_saturating(x, p) ==
    LET q3 == x[1] \div p
        c2 == ((x[1] % p) * Limb) + x[2]
        q2 == c2 \div p
        c1 == (c2 % p) * Limb
        c0 == (c1 % p) * Limb
    IN  IF q3 > 0 \/ q2 > 0
        THEN u32(Limb - 1, Limb - 1)
        ELSE u32(c1 \div p, c0 \div p)

\* (((1u64 << 32) * x as u64) / p as u64) as u32 for a word x and 0 < p < 2^15:
\* the 64-bit product has the limbs x[1], x[2], 0, 0 and is divided limb by
\* limb; the cast keeps the two low limbs of the quotient
lift(x, p) ==
    LET c2 == ((x[1] % p) * Limb) + x[2]
        c1 == (c2 % p) * Limb
        c0 == (c1 % p) * Limb
    IN  u32(c1 \div p, c0 \div p)

\* the messages and scalars that are lifted: the smallest words, the largest
\* words and multiples of 2^16
LiftedWords ==
    UNION {{u32(0, x), u32(Limb - 1, Limb - 1 - x), u32(x, 0)} :
               x \in 0..MaxCodecP}

\* GadgetEngine::encrypt of the message x under an encoding of modulus p
EncryptWord ==
    /\ call.op = "new"
    /\ \E x \in LiftedWords, p \in 1..MaxCodecP :
           call' = [op |-> "encrypt", message |-> x,
                    encoding |-> plain_encoding(p),
                    ret |-> Encrypted(SmallLweDimension + 1, lift(x, p))]
    /\ UNCHANGED <<memory, test>>

\* the plaintext that evaluate_gate adds for a Trivial(true) pin whose scalar
\* is x
LiftScalar ==
    /\ call.op = "new"
    /\ \E x \in LiftedWords, p \in 1..MaxCodecP :
           call' = [op |-> "evaluate_gate", message |-> x,
                    encoding |-> plain_encoding(p),
                    ret |-> Encrypted(SmallLweDimension + 1,
                                      wrapping_add(Zero32, lift(x, p)))]
    /\ UNCHANGED <<memory, test>>

NextLift == EncryptWord \/ LiftScalar

SpecLift == InitCodec /\ [][NextLift]_vars

\* C28: for every p >= 1 and every 32-bit x, the lifting
\* floor(2^32 x / p) mod 2^32 of x equals the lifting floor(2^32 (x mod p) / p)
\* of its residue, which the 64-bit intermediate holds without overflow: a
\* message or a scalar >= p is encoded as its residue modulo p.
LiftingPeriodic ==
    call.op \in {"encrypt", "evaluate_gate"} =>
        LET p == call.encoding.p
            x == call.message
            residue == (((x[1] % p) * Limb) + x[2]) % p
        IN  /\ call.ret.phase = ScaleToNative(residue, p)
            /\ call.ret.phase = encrypt(residue, DEFAULT_PARAMETERS,
                                        call.encoding).phase
            /\ (x[1] = 0 /\ x[2] < Limb \div 2) =>
                   call.ret.phase = ScaleToNative(x[2], p)

\* C28 witness: the message 2^32 - 1 = 11 (mod 23) has been encrypted under
\* p = 23 to the lifting 2054114793 of 11
LiftingPeriodicReached ==
    /\ call.op = "encrypt"
    /\ call.encoding.p = 23
    /\ call.message = u32(Limb - 1, Limb - 1)
    /\ call.ret.phase = u32(31343, 19945)
    /\ call.ret.phase = ScaleToNative(11, 23)

(***************************************************************************)
(* SpecEvaluateGate: tests::evaluate_gate, the six-input gate under        *)
(* DEFAULT_PARAMETERS, one truth-table row after the other on one engine.  *)
(***************************************************************************)
\* the encoding that tests::evaluate_gate deserializes
Gate6 ==
    new_canonical(
        u128(65466, 47616), 6, <<1, 3, 20, 5, 18, 10>>,
        <<0, 1, 3, 4, 6, 8, 9, 11, 13, 14, 16, 18, 19, 21, 22>>,
        <<2, 5, 7, 10, 12, 15, 20>>, 23)

InitEvaluateGate ==
    /\ memory = <<>>
    /\ call = [op |-> "new"]
    /\ test = [name |-> "evaluate_gate", pc |-> "encrypt", tt_row |-> 0,
               input_ciphertexts |-> <<>>, out |-> Trivial(FALSE),
               output |-> 0]

\* the pins of the row are encrypted
TestEncryptPins ==
    /\ test.name = "evaluate_gate"
    /\ test.pc = "encrypt"
    /\ test' = [test EXCEPT
                   !.pc = "evaluate",
                   !.input_ciphertexts =
                       [i \in 1..Gate6.pin_count |->
                           encrypt(pins_of(test.tt_row, Gate6.pin_count)[i],
                                   DEFAULT_PARAMETERS, Gate6)]]
    /\ UNCHANGED <<memory, call>>

\* server_key.evaluate_gate(input_ciphertexts, &encoding)
TestEvaluateGate ==
    /\ test.name = "evaluate_gate"
    /\ test.pc = "evaluate"
    /\ LET done == evaluate_gate(memory, new_server_key(DEFAULT_PARAMETERS),
                                 Gate6, test.input_ciphertexts)
       IN  /\ memory' = done.buffer
           /\ call' = [op |-> "evaluate_gate", encoding |-> Gate6,
                       server_key |-> new_server_key(DEFAULT_PARAMETERS),
                       sum_ct |-> done.sum_ct, ret |-> done.ret]
           /\ test' = [test EXCEPT !.pc = "decrypt", !.out = done.ret]

\* client_key.decrypt(&out, encoding.p)
TestDecryptOutput ==
    /\ test.name = "evaluate_gate"
    /\ test.pc = "decrypt"
    /\ test' = [test EXCEPT !.pc = "assert",
                            !.output = decrypt(test.out, Gate6)]
    /\ UNCHANGED <<memory, call>>

\* assert_eq!(output, (tt_value >> tt_row) & 1): the test fails, goes on with
\* the next row, or ends after the last row
TestAssertOutput ==
    /\ test.name = "evaluate_gate"
    /\ test.pc = "assert"
    /\ test' =
           IF test.output # tt_bit(Gate6.tt_value, test.tt_row)
           THEN [test EXCEPT !.pc = "failed"]
           ELSE IF test.tt_row + 1 = 2 ^ Gate6.pin_count
           THEN [test EXCEPT !.pc = "done"]
           ELSE [test EXCEPT !.pc = "encrypt", !.tt_row = test.tt_row + 1]
    /\ UNCHANGED <<memory, call>>

NextEvaluateGate ==
    TestEncryptPins \/ TestEvaluateGate \/ TestDecryptOutput \/ TestAssertOutput

SpecEvaluateGate == InitEvaluateGate /\ [][NextEvaluateGate]_vars

\* C2: for every row of the truth table of the six-input gate, the
\* decryption of what evaluate_gate returns for the encrypted bits of the row
\* equals (tt_value >> row) & 1.
GateIsTruthTable ==
    /\ test.pc # "failed"
    /\ test.pc = "assert" =>
           test.output = tt_bit(Gate6.tt_value, test.tt_row)

\* C2 witness: the row with only pin 0 set has been evaluated and decrypted,
\* and its output is the 1 that bit 1 of tt_value asks for
GateIsTruthTableReached ==
    /\ test.pc = "assert"
    /\ test.tt_row = 1
    /\ call.op = "evaluate_gate"
    /\ tt_bit(Gate6.tt_value, 1) = 1
    /\ test.output = 1

(***************************************************************************)
(* SpecEncoding: encodings are built by new_canonical or parsed from JSON, *)
(* and their accumulators are created.                                     *)
(***************************************************************************)
\* the encoding with modulus p and these two output lists, which need not
\* partition 0..p-1
listed_encoding(p, out0, out1) ==
    new_canonical(u128(0, 0), 1, <<1>>, members(out0, p), members(out1, p), p)

\* the JSON array of tests::deserialization_works: every object carries six
\* keys
Fixture ==
    <<[input_mappings_1 |-> <<1, 1, 1, 1, 5, 6>>,
       output_encodings_0 |->
           <<0, 1, 2, 3, 4, 6, 7, 8, 9, 10, 11, 12, 13, 14, 15>>,
       output_encodings_1 |-> <<5>>,
       p |-> 23, pin_count |-> 6, tt_value |-> u128(4, 0)],
      [input_mappings_1 |-> <<1, 1, 1, 1, 5, 5>>,
       output_encodings_0 |->
           <<0, 1, 2, 3, 4, 5, 6, 7, 8, 9, 11, 12, 13, 14>>,
       output_encodings_1 |-> <<10>>,
       p |-> 23, pin_count |-> 6, tt_value |-> u128(8, 0)],
      [input_mappings_1 |-> <<1, 2, 2, 2, 2, 2>>,
       output_encodings_0 |-> <<0, 1, 2, 3, 4, 5, 6, 7, 8, 9, 11>>,
       output_encodings_1 |-> <<10>>,
       p |-> 23, pin_count |-> 6, tt_value |-> u128(0, 32768)],
      [input_mappings_1 |-> <<1, 2, 2, 2, 2, 9>>,
       output_encodings_0 |-> <<0, 1, 2, 4, 6, 8, 11, 13, 15, 17>>,
       output_encodings_1 |-> <<3, 5, 7, 9, 10, 12, 14, 16, 18>>,
       p |-> 23, pin_count |-> 6,
       tt_value |-> <<2, 2, 65534, 65535, 0, 0, 0, 0>>]>>

\* the six keys that the JSON objects of the tests carry
JsonKeys ==
    {"tt_value", "pin_count", "input_mappings_1", "output_encodings_0",
     "output_encodings_1", "p"}

\* the JSON object of tests::evaluate_gate
Gate6Json == [f \in JsonKeys |-> Gate6[f]]

\* the canonical encoding with the values of a six-key JSON object
canonical_of(json) ==
    new_canonical(json.tt_value, json.pin_count, json.input_mappings_1,
                  json.output_encodings_0, json.output_encodings_1, json.p)

\* the JSON objects handed to from_str: the objects of the tests, and the
\* objects that serializing their canonical encodings gives (all ten keys)
JsonObjects ==
    LET six == {Fixture[i] : i \in DOMAIN Fixture} \cup {Gate6Json}
    IN  six \cup {canonical_of(json) : json \in six}

\* the encodings whose accumulator is created: every pair of output lists
\* over 0..p-1 for p up to MaxAccP, and the encodings of the tests
AccumulatorEncodings ==
    UNION {{listed_encoding(p, out0, out1) :
                out0 \in SUBSET (0..(p - 1)), out1 \in SUBSET (0..(p - 1))} :
               p \in 0..MaxAccP}
        \cup {canonical_of(Fixture[i]) : i \in DOMAIN Fixture}
        \cup {Gate6}

\* a Vec that a call returned
Returned(v) == [tag |-> "Returned", value |-> v]

InitEncoding ==
    /\ memory = <<>>
    /\ call = [op |-> "new"]
    /\ test = NoTest

\* Encoding::create_accumulator on an encoding built by new_canonical
CreateAccumulator ==
    /\ call.op = "new"
    /\ \E encoding \in AccumulatorEncodings :
           call' = [op |-> "create_accumulator", encoding |-> encoding,
                    ret |-> Returned(create_accumulator(encoding))]
    /\ UNCHANGED <<memory, test>>

\* serde_json::from_str of a JSON object
FromStr ==
    /\ call.op = "new"
    /\ \E json \in JsonObjects :
           call' = [op |-> "from_str", json |-> json, ret |-> from_str(json)]
    /\ UNCHANGED <<memory, test>>

\* Encoding::create_accumulator on an encoding that from_str returned
CreateAccumulatorParsed ==
    /\ call.op = "from_str"
    /\ call.ret.tag = "Ok"
    /\ call' = [op |-> "create_accumulator", encoding |-> call.ret.value,
                ret |-> Returned(create_accumulator(call.ret.value))]
    /\ UNCHANGED <<memory, test>>

NextEncoding == CreateAccumulator \/ FromStr \/ CreateAccumulatorParsed

SpecEncoding == InitEncoding /\ [][NextEncoding]_vars

\* the values a list holds
range(v) == {v[i] : i \in DOMAIN v}

\* the two output lists of the encoding partition 0..p-1
is_partition(encoding) ==
    /\ range(encoding.output_encodings_0) \cup range(encoding.output_encodings_1)
           = 0..(encoding.p - 1)
    /\ range(encoding.output_encodings_0) \cap range(encoding.output_encodings_1)
           = {}

\* the slot of the accumulator that carries the output of the p-ary value v,
\* and whether the slot holds it negated
slot_of_value(v, p) ==
    LET half == (p + 1) \div 2
    IN  IF v < half
        THEN [slot |-> 2 * v, negated |-> FALSE]
        ELSE [slot |-> 2 * (v - half) + 1, negated |-> TRUE]

\* C12 (as stated): an encoding whose output lists do not partition [0, p) is
\* reported as an EncodingError when its accumulator is built.
NonPartitionRejected ==
    (call.op = "create_accumulator" /\ ~is_partition(call.encoding))
        => call.ret.tag = "EncodingError"

\* C12 (amended): an encoding whose output lists do not partition [0, p) is
\* accepted without an error: create_accumulator returns p + 1 slots, in which
\* a value listed in both lists is given output 0 and a value of [0, p)
\* listed in neither is given output 1.
NonPartitionAccepted ==
    (call.op = "create_accumulator" /\ ~is_partition(call.encoding)) =>
        LET p == call.encoding.p
            out0 == range(call.encoding.output_encodings_0)
            out1 == range(call.encoding.output_encodings_1)
            acc == call.ret.value
        IN  /\ call.ret.tag = "Returned"
            /\ DOMAIN acc = 0..p
            /\ \A v \in 0..(p - 1) :
                   LET at == slot_of_value(v, p)
                   IN  /\ (v \in out0 \cap out1) => acc[at.slot] = 0
                       /\ (v \notin out0 \cup out1) =>
                              acc[at.slot] = (IF at.negated THEN p - 1 ELSE 1)

\* C12 witness: the accumulator of the encoding p = 3, output_encodings_0 =
\* [0, 1], output_encodings_1 = [1], in which 1 is listed twice and 2 is not
\* listed, has been returned
NonPartitionAcceptedReached ==
    /\ call.op = "create_accumulator"
    /\ call.encoding.p = 3
    /\ call.encoding.output_encodings_0 = <<0, 1>>
    /\ call.encoding.output_encodings_1 = <<1>>
    /\ call.ret = Returned([j \in 0..3 |-> IF j = 1 THEN 2 ELSE 0])

\* C14: the accumulator of a canonical encoding has exactly p + 1 entries and
\* every entry is 0, 1 or p - 1.
CanonicalAccumulatorValues ==
    (/\ call.op = "create_accumulator"
     /\ call.encoding.new_0 = 0
     /\ call.encoding.new_1 = 1
     /\ call.encoding.new_p = call.encoding.p) =>
        LET p == call.encoding.p
            acc == call.ret.value
        IN  /\ call.ret.tag = "Returned"
            /\ DOMAIN acc = 0..p
            /\ Cardinality(DOMAIN acc) = p + 1
            /\ \A j \in DOMAIN acc : acc[j] \in {0, 1, p - 1}

\* C14 witness: the accumulator of the first encoding of the fixture, p = 23,
\* has been returned and holds a 22
CanonicalAccumulatorValuesReached ==
    /\ call.op = "create_accumulator"
    /\ call.encoding = canonical_of(Fixture[1])
    /\ \E j \in DOMAIN call.ret.value : call.ret.value[j] = 22

\* the output that create_accumulator gives the p-ary value v
output_of(encoding, v) ==
    IF contains(encoding.output_encodings_0, v) THEN 0 ELSE 1

\* C17 (as stated): for every index i in 0..p, acc[i] is 0 if i belongs to
\* output_encodings_0 and 1 otherwise.
AccumulatorIndexedByValue ==
    (/\ call.op = "create_accumulator"
     /\ is_partition(call.encoding)
     /\ call.encoding.p >= 2) =>
        \A i \in 0..call.encoding.p :
            call.ret.value[i] = output_of(call.encoding, i)

\* C17 (amended): with half = (p + 1) / 2, for every i below half the slot
\* acc[2i] is 0 if i belongs to output_encodings_0 and 1 otherwise, and the
\* slot acc[2i + 1] is the negation modulo p of the same output of the value
\* (i + half) mod p; for an even p the slot acc[p] is left 0.
AccumulatorInterleaved ==
    (call.op = "create_accumulator" /\ is_partition(call.encoding)) =>
        LET p == call.encoding.p
            half == (p + 1) \div 2
            acc == call.ret.value
        IN  /\ DOMAIN acc = 0..p
            /\ \A j \in 0..p :
                   acc[j] =
                       IF j \div 2 >= half
                       THEN 0
                       ELSE IF j % 2 = 0
                       THEN output_of(call.encoding, j \div 2)
                       ELSE (p - output_of(call.encoding,
                                           ((j \div 2) + half) % p)) % p

\* C17 witness: the accumulator of p = 3, output_encodings_0 = [0, 1] has
\* been returned: slot 1 carries the negated output of the value 2
AccumulatorInterleavedReached ==
    /\ call.op = "create_accumulator"
    /\ call.encoding.p = 3
    /\ call.encoding.output_encodings_0 = <<0, 1>>
    /\ call.encoding.output_encodings_1 = <<2>>
    /\ call.ret.value[1] = 2

\* C18 (as stated): for every p >= 2 the slot acc[p] is assigned and holds
\* (p - b) mod p, where b is the output of the value 0, and every slot of
\* 0..p is assigned.
ExtraSlotNegatesZero ==
    (/\ call.op = "create_accumulator"
     /\ is_partition(call.encoding)
     /\ call.encoding.p >= 2) =>
        LET p == call.encoding.p
        IN  /\ assigned_slots(p) = 0..p
            /\ call.ret.value[p] = (p - output_of(call.encoding, 0)) % p

\* C18 (amended): for every odd p >= 3 the slot acc[p] is assigned and holds
\* (p - b) mod p, where b is the output of the value 0, and every slot of
\* 0..p is assigned.
ExtraSlotNegatesZeroOddP ==
    (/\ call.op = "create_accumulator"
     /\ is_partition(call.encoding)
     /\ call.encoding.p >= 3
     /\ call.encoding.p % 2 = 1) =>
        LET p == call.encoding.p
        IN  /\ assigned_slots(p) = 0..p
            /\ call.ret.value[p] = (p - output_of(call.encoding, 0)) % p

\* C18 witness: the accumulator of p = 5 in which 0 has output 1 has been
\* returned with acc[5] = 4
ExtraSlotNegatesZeroOddPReached ==
    /\ call.op = "create_accumulator"
    /\ is_partition(call.encoding)
    /\ call.encoding.p = 5
    /\ ~contains(call.encoding.output_encodings_0, 0)
    /\ call.ret.value[5] = 4

\* C24: create_accumulator decides every slot from output_encodings_0 alone:
\* a value listed in both lists is given output 0, a value of [0, p) listed in
\* neither is given output 1, and the accumulator is the same whatever list
\* stands in output_encodings_1.
OnlyOutput0Decides ==
    call.op = "create_accumulator" =>
        LET encoding == call.encoding
            p == encoding.p
            out0 == range(encoding.output_encodings_0)
            out1 == range(encoding.output_encodings_1)
            acc == call.ret.value
            held(at, new_x) ==
                IF at.negated
                THEN (encoding.new_p - new_x) % encoding.new_p
                ELSE new_x
            small == IF p < MaxAccP THEN p ELSE MaxAccP
        IN  /\ \A v \in 0..(p - 1) :
                   LET at == slot_of_value(v, p)
                   IN  /\ (v \in out0 \cap out1) =>
                              acc[at.slot] = held(at, encoding.new_0)
                       /\ (v \notin out0 \cup out1) =>
                              acc[at.slot] = held(at, encoding.new_1)
            /\ \A other \in SUBSET (0..(small - 1)) :
                   create_accumulator(
                       [encoding EXCEPT
                           !.output_encodings_1 = members(other, p)]) = acc

\* C24 witness: the accumulator of p = 3, output_encodings_0 = [0],
\* output_encodings_1 = [0, 1] has been returned: 0, listed twice, has output
\* 0, and 2, not listed, has output 1 (negated in slot 1)
OnlyOutput0DecidesReached ==
    /\ call.op = "create_accumulator"
    /\ call.encoding.p = 3
    /\ call.encoding.output_encodings_0 = <<0>>
    /\ call.encoding.output_encodings_1 = <<0, 1>>
    /\ call.ret.value = [j \in 0..3 |-> IF j = 1 THEN 2 ELSE IF j = 2 THEN 1 ELSE 0]

\* C15: a JSON object that carries exactly the six keys tt_value, pin_count,
\* input_mappings_1, output_encodings_0, output_encodings_1 and p
\* deserializes into the canonical encoding with these values.
SixKeyJsonParses ==
    (call.op = "from_str" /\ DOMAIN call.json = JsonKeys)
        => call.ret = Ok(canonical_of(call.json))

(***************************************************************************)
(* SpecThreads: threads that enter the engine through                      *)
(* with_thread_local_mut.  GADGET_ENGINE is thread local: memory[t] is the *)
(* arena of the engine of thread t and call[t] the state of thread t.      *)
(***************************************************************************)
Threads == 1..MaxThreads

\* variant of borrow_mut that hands out a mutable borrow whatever the flag
borrow_mut_unchecked(borrowed) == [ok |-> TRUE]

\* RefCell::borrow_mut on a cell whose mutable borrow flag is `borrowed`
borrow_mut(borrowed) ==
    IF borrowed
    THEN [ok |-> FALSE, why |-> "already borrowed: BorrowMutError"]
    ELSE [ok |-> TRUE]

\* the key and the encoding of the operations of the threads
ThreadParameters == GadgetParameters(SmallLweDimension, 1, 8)

ThreadEncoding == lookup_encoding(3, {0})

InitThreads ==
    /\ memory = [t \in Threads |-> <<>>]
    /\ call = [t \in Threads |->
                  [pc |-> "idle", borrowed |-> FALSE, views |-> 0, n |-> 0,
                   reentered |-> FALSE]]
    /\ test = NoTest

\* with_thread_local_mut: GADGET_ENGINE.with(|engine| .. engine.borrow_mut())
WithThreadLocalMut(t) ==
    /\ call[t].pc = "idle"
    /\ call[t].n < MaxCalls
    /\ borrow_mut(call[t].borrowed).ok
    /\ call' = [call EXCEPT ![t].pc = "inside", ![t].borrowed = TRUE,
                            ![t].views = @ + 1]
    /\ UNCHANGED <<memory, test>>

\* func(&mut engine): the operation runs on the engine of the thread
EngineOperation(t) ==
    /\ call[t].pc = "inside"
    /\ \E m \in 0..(ThreadEncoding.p - 1) :
           memory' =
               [memory EXCEPT
                   ![t] = bootstrap(@,
                                    encrypt(m, ThreadParameters,
                                            ThreadEncoding),
                                    new_server_key(ThreadParameters),
                                    ThreadEncoding).buffer]
    /\ call' = [call EXCEPT ![t].pc = "done"]
    /\ UNCHANGED test

\* func returns and the RefMut is dropped
Return(t) ==
    /\ call[t].pc = "done"
    /\ call' = [call EXCEPT ![t].pc = "idle", ![t].borrowed = FALSE,
                            ![t].views = @ - 1, ![t].n = @ + 1]
    /\ UNCHANGED <<memory, test>>

\* with_thread_local_mut is entered again from inside func: borrow_mut on the
\* borrowed cell panics, and the unwinding drops the outer RefMut
ReEnter(t) ==
    /\ call[t].pc \in {"inside", "done"}
    /\ call' =
           IF borrow_mut(call[t].borrowed).ok
           THEN [call EXCEPT ![t].pc = "aliased", ![t].views = @ + 1,
                             ![t].reentered = TRUE]
           ELSE [call EXCEPT ![t].pc = "panicked", ![t].borrowed = FALSE,
                             ![t].views = 0, ![t].reentered = TRUE]
    /\ UNCHANGED <<memory, test>>

NextThreads ==
    \E t \in Threads :
        \/ WithThreadLocalMut(t)
        \/ EngineOperation(t)
        \/ Return(t)
        \/ ReEnter(t)

SpecThreads == InitThreads /\ [][NextThreads]_vars

\* at most one mutable view of an engine is live; it is live, and the cell is
\* borrowed, for as long as the operation is inside; a thread that entered
\* its engine again has panicked
ExclusiveAccess ==
    \A t \in Threads :
        /\ call[t].views <= 1
        /\ call[t].pc \in {"inside", "done"} =>
               (call[t].borrowed /\ call[t].views = 1)
        /\ call[t].pc \in {"idle", "panicked"} =>
               (~call[t].borrowed /\ call[t].views = 0)
        /\ call[t].reentered => call[t].pc = "panicked"

\* the arena of a thread changes only in a step of that thread, while it
\* holds the mutable borrow of its own engine
OwnArena ==
    \A t \in Threads :
        memory'[t] # memory[t] =>
            /\ call[t].pc = "inside"
            /\ call[t].borrowed
            /\ \A u \in Threads \ {t} : memory'[u] = memory[u]

\* C16: no two calls alias an arena: every thread has its own engine, an
\* operation holds the only mutable borrow of it from entry to return, and
\* entering the engine again from inside an operation fails instead of
\* yielding a second mutable view.
NoArenaAliasing == [](ExclusiveAccess) /\ [][OwnArena]_vars

\* C16 witness: a thread that entered its engine again has panicked after
\* its operation wrote its arena, while another thread is inside its own
\* engine
NoArenaAliasingReached ==
    \E t \in Threads, u \in Threads :
        /\ t # u
        /\ call[t].pc = "panicked"
        /\ memory[t] # <<>>
        /\ call[u].pc = "inside"
        /\ memory[u] # memory[t]

(***************************************************************************)
(* SpecSteps: Bootstrapper::bootstrap_keyswitch statement by statement.    *)
(* call.pc is the statement the call is at, call.ciphertext the LWE        *)
(* ciphertext the call owns, call.log the views each statement read and    *)
(* wrote, call.entry the arena as the call found it.                       *)
(***************************************************************************)
\* what a statement read and wrote
access(step, reads, writes) ==
    [step |-> step, reads |-> reads, writes |-> writes]

\* programmable_bootstrap_lwe_ciphertext_mem_optimized(&ciphertext,
\* &mut buffer_lwe_after_pbs, &accumulator, ..): the arena after the call
programmable_bootstrap(buffer, ciphertext, server_key) ==
    LET views == Views(server_key)
        after_pbs ==
            programmable_bootstrap_lwe_ciphertext(
                ciphertext.phase, view(buffer, views.body),
                server_key.polynomial_size)
    IN  store(buffer, views.buffer_lwe_after_pbs.lo,
              views.buffer_lwe_after_pbs.hi,
              repeat(Zero32, server_key.output_lwe_dimension)
                  \o <<after_pbs>>)

\* variant of keyswitch that writes its output into buffer_lwe_after_ks and
\* hands back a copy of it
keyswitch_into_after_ks(buffer, ciphertext, server_key) ==
    LET views == Views(server_key)
        after_pbs == view(buffer, views.buffer_lwe_after_pbs)
        phase == keyswitch_lwe_ciphertext(after_pbs[Len(after_pbs)])
    IN  [buffer |->
             store(buffer, views.buffer_lwe_after_ks.lo,
                   views.buffer_lwe_after_ks.hi,
                   repeat(Zero32, server_key.output_lwe_size - 1)
                       \o <<phase>>),
         ciphertext |-> Encrypted(server_key.output_lwe_size, phase),
         access |->
             access("keyswitch", {"buffer_lwe_after_pbs"},
                    {"buffer_lwe_after_ks"})]

\* keyswitch_lwe_ciphertext(&key_switching_key, &buffer_lwe_after_pbs,
\* &mut ciphertext): the arena, which it leaves alone, and the ciphertext of
\* the call after it
keyswitch(buffer, ciphertext, server_key) ==
    LET after_pbs == view(buffer, Views(server_key).buffer_lwe_after_pbs)
    IN  [buffer |-> buffer,
         ciphertext |->
             Encrypted(ciphertext.lwe_size,
                       keyswitch_lwe_ciphertext(after_pbs[Len(after_pbs)])),
         access |->
             access("keyswitch", {"buffer_lwe_after_pbs"}, {"ciphertext"})]

\* the encodings of the calls: every one-pin encoding of a modulus up to 3
StepEncodings == {encoding \in LookupEncodings : encoding.p <= 3}

InitSteps ==
    /\ memory = <<>>
    /\ call = [op |-> "new", pc |-> "idle", n |-> 0, last |-> FALSE]
    /\ test = NoTest

\* bootstrap_keyswitch is entered with this LWE ciphertext, key and encoding
Enter(parameters, encoding, ct, last) ==
    call' = [op |-> "bootstrap_keyswitch", pc |-> "as_buffers", n |-> call.n,
             last |-> last, parameters |-> parameters,
             server_key |-> new_server_key(parameters), encoding |-> encoding,
             input |-> ct, ciphertext |-> ct, entry |-> memory, log |-> <<>>]

\* a call that warms the arena is entered
EnterWarm ==
    /\ call.pc = "idle"
    /\ call.n + 1 < MaxCalls
    /\ ~call.last
    /\ \E parameters \in SmallParameters, encoding \in WarmEncodings :
           Enter(parameters, encoding, encrypt(0, parameters, encoding),
                 FALSE)
    /\ UNCHANGED <<memory, test>>

\* the last call of the run is entered
EnterBootstrapKeyswitch ==
    /\ call.pc = "idle"
    /\ call.n < MaxCalls
    /\ ~call.last
    /\ \E parameters \in SmallParameters, encoding \in StepEncodings :
           \E ct \in {c \in bootstrap_inputs(parameters, encoding) :
                          c.tag = "Encrypted"} :
               Enter(parameters, encoding, ct, TRUE)
    /\ UNCHANGED <<memory, test>>

\* self.memory.as_buffers(server_key, encoding)
StepAsBuffers ==
    /\ call.pc = "as_buffers"
    /\ LET buffers == as_buffers(memory, call.server_key, call.encoding)
       IN  /\ memory' = buffers.buffer
           /\ call' =
                  IF buffers.panic
                  THEN [call EXCEPT
                           !.pc = "idle", !.n = @ + 1,
                           !.log = Append(@, access("as_buffers", {},
                                                    {"mask"}))]
                           @@ [ret |-> Panic("attempt to divide by zero")]
                  ELSE [call EXCEPT
                           !.pc = "programmable_bootstrap",
                           !.log = Append(@, access("as_buffers", {},
                                                    {"mask", "body"}))]
    /\ UNCHANGED test

\* programmable_bootstrap_lwe_ciphertext_mem_optimized
StepProgrammableBootstrap ==
    /\ call.pc = "programmable_bootstrap"
    /\ memory' = programmable_bootstrap(memory, call.ciphertext,
                                        call.server_key)
    /\ call' = [call EXCEPT
                   !.pc = "keyswitch",
                   !.log = Append(@, access("programmable_bootstrap",
                                            {"ciphertext", "body", "mask"},
                                            {"buffer_lwe_after_pbs"}))]
    /\ UNCHANGED test

\* keyswitch_lwe_ciphertext
StepKeyswitch ==
    /\ call.pc = "keyswitch"
    /\ LET done == keyswitch(memory, call.ciphertext, call.server_key)
       IN  /\ memory' = done.buffer
           /\ call' = [call EXCEPT
                          !.pc = "return",
                          !.ciphertext = done.ciphertext,
                          !.log = Append(@, done.access)]
    /\ UNCHANGED test

\* Ok(Ciphertext::Encrypted(ciphertext))
StepReturn ==
    /\ call.pc = "return"
    /\ call' = [call EXCEPT !.pc = "idle", !.n = @ + 1]
                   @@ [ret |-> call.ciphertext]
    /\ UNCHANGED <<memory, test>>

NextSteps ==
    EnterWarm \/ EnterBootstrapKeyswitch \/ StepAsBuffers \/ StepProgrammableBootstrap
        \/ StepKeyswitch \/ StepReturn

SpecSteps == InitSteps /\ [][NextSteps]_vars

\* the statements run so far are a prefix of: build the accumulator, PBS from
\* the input and the accumulator into the post-PBS buffer, keyswitch from the
\* post-PBS buffer into the ciphertext of the call
StepsInOrder ==
    call.op = "bootstrap_keyswitch" =>
        LET order ==
                <<access("as_buffers", {}, {"mask", "body"}),
                  access("programmable_bootstrap",
                         {"ciphertext", "body", "mask"},
                         {"buffer_lwe_after_pbs"}),
                  access("keyswitch", {"buffer_lwe_after_pbs"},
                         {"ciphertext"})>>
        IN  /\ Len(call.log) <= 3
            /\ (call.encoding.p # 0 =>
                    call.log = SubSeq(order, 1, Len(call.log)))
            /\ (call.pc = "return" => call.log = order)

\* a call that has returned a ciphertext returned one of the LWE size of its
\* input, the one the call as a whole computes, after a PBS that wrote
\* kN + 1 words
ReturnsInputSize ==
    (call.op = "bootstrap_keyswitch" /\ call.pc = "idle"
         /\ call.encoding.p # 0) =>
        LET whole == bootstrap_keyswitch(call.entry, call.input,
                                         call.server_key, call.encoding)
            after_pbs == Views(call.server_key).buffer_lwe_after_pbs
        IN  /\ call.ret.tag = "Encrypted"
            /\ call.ret.lwe_size = call.parameters.lwe_dimension + 1
            /\ call.ret.lwe_size = call.input.lwe_size
            /\ call.ret = whole.ret
            /\ memory = whole.buffer
            /\ after_pbs.hi - after_pbs.lo
                   = (call.parameters.glwe_dimension
                          * call.parameters.polynomial_size) + 1

\* no statement of the call reads or writes the post-keyswitch view, and its
\* words are those the call found (zeros where the arena has grown)
AfterKsUntouched ==
    call.op = "bootstrap_keyswitch" =>
        LET after_ks == Views(call.server_key).buffer_lwe_after_ks
        IN  /\ \A k \in DOMAIN call.log :
                   "buffer_lwe_after_ks"
                       \notin call.log[k].reads \cup call.log[k].writes
            /\ Len(call.log) >= 1 =>
                   view(memory, after_ks)
                       = view(resize(call.entry, Len(memory)), after_ks)

\* C21: under an encoding with p >= 1, for which as_buffers returns,
\* bootstrap_keyswitch runs as_buffers, then the PBS from the input into
\* the post-PBS buffer of kN + 1 words, then the keyswitch from the post-PBS
\* buffer into the ciphertext of the call, and returns Encrypted(c) with c of
\* the LWE size n + 1 of the input; the post-keyswitch view of the arena is
\* never read or written.
FixedStepOrder == StepsInOrder /\ ReturnsInputSize /\ AfterKsUntouched

\* C21 witness: a second call, under N = 8, has returned on an arena whose
\* post-keyswitch view overlaps what a call under a larger N wrote
FixedStepOrderReached ==
    /\ call.op = "bootstrap_keyswitch"
    /\ call.pc = "idle"
    /\ call.n = MaxCalls
    /\ call.ret.tag = "Encrypted"
    /\ call.parameters.polynomial_size = 8
    /\ Len(call.entry) > 28
    /\ \E j \in DOMAIN view(memory, Views(call.server_key).buffer_lwe_after_ks) :
           view(memory, Views(call.server_key).buffer_lwe_after_ks)[j]
               # Zero32

(***************************************************************************)
(* SpecBoolean: the two-input Boolean gates of boolean.rs, whose wires     *)
(* carry false as 1 and true as 2 under p = 3, on an engine that earlier   *)
(* bootstraps may have warmed.                                             *)
(***************************************************************************)
BOOLEAN_PLAINTEXT_MODULUS == 3

BOOLEAN_MESSAGE_TRUE == 2

BOOLEAN_MESSAGE_FALSE == 1

\* Plaintext(((2u64 << 32) / 3) as u32)
BOOLEAN_PLAINTEXT_TRUE == ScaleToNative(2, 3)

\* Plaintext(((1u64 << 32) / 3) as u32)
BOOLEAN_PLAINTEXT_FALSE == ScaleToNative(1, 3)

\* the encoding of a gate of BOOLEAN_ENCODINGS with these output lists
boolean_encoding(output_encodings_0, output_encodings_1) ==
    Encoding_new(u128(8, 0), 2,
                 <<BOOLEAN_MESSAGE_FALSE, BOOLEAN_MESSAGE_FALSE>>,
                 <<BOOLEAN_MESSAGE_TRUE, BOOLEAN_MESSAGE_TRUE>>,
                 output_encodings_0, output_encodings_1,
                 BOOLEAN_MESSAGE_FALSE, BOOLEAN_MESSAGE_TRUE,
                 BOOLEAN_PLAINTEXT_MODULUS, BOOLEAN_PLAINTEXT_MODULUS)

BOOLEAN_ENCODINGS ==
    [and |-> boolean_encoding(<<0, 2>>, <<1>>),
     nand |-> boolean_encoding(<<1>>, <<0, 2>>),
     or |-> boolean_encoding(<<2>>, <<0, 1>>),
     nor |-> boolean_encoding(<<0, 1>>, <<2>>),
     xor |-> boolean_encoding(<<0>>, <<1, 2>>)]

\* the closure that and, nand, or, nor, xor hand to boolean_gate
gate_fn(gate_str, lhs, rhs) ==
    CASE gate_str = "and" -> lhs /\ rhs
      [] gate_str = "nand" -> ~(lhs /\ rhs)
      [] gate_str = "or" -> lhs \/ rhs
      [] gate_str = "nor" -> ~(lhs \/ rhs)
      [] gate_str = "xor" -> lhs # rhs

\* ServerKey::boolean_gate
boolean_gate(buffer, server_key, gate_str, lhs, rhs) ==
    LET encoding == BOOLEAN_ENCODINGS[gate_str]
        plaintext(trivial) ==
            IF trivial THEN BOOLEAN_PLAINTEXT_TRUE ELSE BOOLEAN_PLAINTEXT_FALSE
    IN  IF lhs.tag = "Encrypted" /\ rhs.tag = "Encrypted"
        THEN bootstrap(buffer,
                       Encrypted(server_key.input_lwe_dimension + 1,
                                 wrapping_add(lhs.phase, rhs.phase)),
                       server_key, encoding)
        ELSE IF lhs.tag = "Encrypted"
        THEN bootstrap(buffer,
                       Encrypted(lhs.lwe_size,
                                 wrapping_add(lhs.phase, plaintext(rhs.value))),
                       server_key, encoding)
        ELSE IF rhs.tag = "Encrypted"
        THEN bootstrap(buffer,
                       Encrypted(rhs.lwe_size,
                                 wrapping_add(rhs.phase, plaintext(lhs.value))),
                       server_key, encoding)
        ELSE [buffer |-> buffer,
              ret |-> Trivial(gate_fn(gate_str, lhs.value, rhs.value))]

\* ServerKey::not
not(input) ==
    IF input.tag = "Encrypted"
    THEN Encrypted(input.lwe_size, wrapping_neg(input.phase))
    ELSE Trivial(~input.value)

\* ClientKey::encrypt of boolean.rs
ClientKey_encrypt(message, parameters) ==
    encrypt(IF message THEN BOOLEAN_MESSAGE_TRUE ELSE BOOLEAN_MESSAGE_FALSE,
            parameters, [p |-> BOOLEAN_PLAINTEXT_MODULUS])

\* ClientKey::decrypt of boolean.rs
ClientKey_decrypt(ct) ==
    LET message == decrypt(ct, [p |-> BOOLEAN_PLAINTEXT_MODULUS])
    IN  IF message = BOOLEAN_MESSAGE_FALSE
        THEN Returned(FALSE)
        ELSE IF message = BOOLEAN_MESSAGE_TRUE
        THEN Returned(TRUE)
        ELSE Panic("P-encoding boolean decryption returned value which isn't true nor false!")

\* the ciphertexts that carry the Boolean b: a fresh encryption and a Trivial
carrying(b, parameters) ==
    {ClientKey_encrypt(b, parameters), Trivial(b)}

\* a gate is applied to two ciphertexts and the client decrypts the output
BooleanGate ==
    /\ call.n < MaxCalls
    /\ ~call.last
    /\ \E parameters \in AndGateParameters,
          gate_str \in DOMAIN BOOLEAN_ENCODINGS, lhs \in BOOLEAN,
          rhs \in BOOLEAN :
           \E lhs_ct \in carrying(lhs, parameters),
              rhs_ct \in carrying(rhs, parameters) :
               LET server_key == new_server_key(parameters)
                   done == boolean_gate(memory, server_key, gate_str, lhs_ct,
                                        rhs_ct)
               IN  /\ memory' = done.buffer
                   /\ call' = [op |-> "boolean_gate", n |-> call.n + 1,
                               last |-> TRUE, parameters |-> parameters,
                               server_key |-> server_key,
                               gate_str |-> gate_str, lhs |-> lhs, rhs |-> rhs,
                               lhs_ct |-> lhs_ct, rhs_ct |-> rhs_ct,
                               ret |-> done.ret,
                               out_bool |-> ClientKey_decrypt(done.ret)]
    /\ UNCHANGED test

\* the client decrypts a ciphertext that carries a Boolean, or its negation
BooleanDecrypt ==
    /\ call.n < MaxCalls
    /\ ~call.last
    /\ \E parameters \in AndGateParameters, input \in BOOLEAN,
          negate \in BOOLEAN :
           \E input_ct \in carrying(input, parameters) :
               LET ct == IF negate THEN not(input_ct) ELSE input_ct
               IN  call' = [op |-> IF negate THEN "not" ELSE "decrypt",
                            n |-> call.n + 1, last |-> TRUE,
                            parameters |-> parameters, input |-> input,
                            input_ct |-> input_ct, ret |-> ct,
                            out_bool |-> ClientKey_decrypt(ct)]
    /\ UNCHANGED <<memory, test>>

NextBoolean == Warm \/ BooleanGate \/ BooleanDecrypt

SpecBoolean == Init /\ [][NextBoolean]_vars

\* C22: for each of the five gates and every (lhs, rhs), when at least one
\* operand is Encrypted the decrypted result is gate_fn(lhs, rhs), the value
\* that the gate of two Trivial operands returns.
ShimGateIsGateFn ==
    (/\ call.op = "boolean_gate"
     /\ (call.lhs_ct.tag = "Encrypted" \/ call.rhs_ct.tag = "Encrypted")) =>
        /\ call.out_bool.tag = "Returned"
        /\ call.out_bool.value = gate_fn(call.gate_str, call.lhs, call.rhs)
        /\ Trivial(call.out_bool.value)
               = boolean_gate(memory, call.server_key, call.gate_str,
                              Trivial(call.lhs), Trivial(call.rhs)).ret

\* C29: decrypt returns the Boolean that a Trivial ciphertext carries:
\* decrypt(Trivial(b)) = b, decrypt(not(Trivial(b))) = ~b,
\* decrypt(gate(Trivial(x), Trivial(y))) = gate_fn(x, y), and decrypt does not
\* panic on such a ciphertext.
ShimDecryptsTrivial ==
    (call.op \in {"decrypt", "not", "boolean_gate"}
         /\ call.ret.tag = "Trivial") =>
        /\ call.out_bool.tag = "Returned"
        /\ call.out_bool.value =
               (CASE call.op = "decrypt" -> call.input
                  [] call.op = "not" -> ~call.input
                  [] call.op = "boolean_gate" ->
                         gate_fn(call.gate_str, call.lhs, call.rhs))

====
